---- MODULE Spec2Model ----
(***************************************************************************)
(* A model of the markdown translator's Preview component                  *)
(* (src/components/Preview.tsx): block segmentation, the translation       *)
(* cache, the batch/singleton scheduler with its TaskQueue, and the        *)
(* annotation highlighter.                                                  *)
(*                                                                         *)
(* Strings are sequences of one-character tokens.  Three tokens stand for  *)
(* a fixed run of characters of the source text:                           *)
(*   "F"  the three backticks of a code fence                              *)
(*   "S"  the batch delimiter word <<<BATCH_SEP>>>                         *)
(*   "L"  a run of 1001 letters (a block over the singleton threshold)     *)
(* "\n" is the newline, " " a blank; every other token is one letter.      *)
(***************************************************************************)
EXTENDS Integers, Sequences, FiniteSets, TLC

VARIABLES
    \* ---- segmentation harness (parseMarkdownIntoBlocks as a function) ----
    text,            \* the document handed to parseMarkdownIntoBlocks
    parsed,          \* <<>> before the call, <<blocks>> after it
    \* ---- partition harness (the batches loop of runTranslation) ----
    partIn,          \* [items, batchSize]: blocksToTranslate and settings.batchSize
    partOut,         \* <<>> before the loop, <<batches>> after it
    \* ---- batch-result harness (the continuation of processBatch) ----
    batchIn,         \* [items, result]: the batch's blocks and the returned text
    batchOut,        \* <<>> before, <<[finals, cache, completed, failed]>> after
    \* ---- highlighter harness (RecursiveHighlighter over one block) ----
    hlIn,            \* [children, annotations]
    hlOut,           \* <<>> before the render, <<[fragments, offset]>> after it
    hashIn,          \* the string given to djb2Hash
    hashOut,         \* <<>> before the call, <<the returned hex string>> after it
    jobIn,           \* [job, reply]: a job of a pass and how its provider replies
    jobOut,          \* <<>> before the job, <<[sent, reply, rendered, cache]>> after it
    \* ---- the Preview component ----
    content,             \* props.content
    enableTranslation,   \* props.enableTranslation
    settings,            \* props.settings (App's aiSettings)
    mounted,             \* the component is mounted
    chunkCacheRef,       \* Map raw -> translated block
    abortControllerRef,  \* the pass whose controller the ref holds (0: null)
    displayedContent,    \* useState displayedContent
    isTranslating,       \* useState isTranslating
    progress,            \* useState progress
    parentTranslating,   \* last status handed to onTranslatingStatusChange
    now,                 \* Date.now(), in milliseconds
    lastUpdateRef,       \* useRef lastUpdateRef: the time of the last streamed publish
    passes,              \* the runTranslation closures started so far, in order
    \* ---- the notes: App's annotations over the rendered blocks ----
    appAnnotations,      \* App's useState annotations, in order of creation
    shown,               \* the blocks ReactMarkdown renders: [kind, children] each
    highlights,          \* the render of each block: [hash, blockAnnotations, fragments]
    \* ---- App's useHistory hook and the file reader ----
    history,             \* useState history: the texts of the entries, oldest first
    currentIndex,        \* useState currentIndex (0-based, as in the source)
    uploads              \* file reads in flight: the onload closures [history, currentIndex, text]

harnessVars ==
    <<text, parsed, partIn, partOut, batchIn, batchOut, hlIn, hlOut, hashIn, hashOut,
      jobIn, jobOut>>

previewVars ==
    <<content, enableTranslation, settings, mounted, chunkCacheRef, abortControllerRef,
      displayedContent, isTranslating, progress, parentTranslating, now,
      lastUpdateRef, passes>>

notesVars == <<appAnnotations, shown, highlights>>

appVars == <<history, currentIndex, uploads>>
vars == <<harnessVars, previewVars, notesVars, appVars>>

\* ------------------------------------------------------------------ bounds

\* lines of a document handed to the segmentation harness
MaxLines == 4

\* stale blocks handed to the partition harness
MaxItems == 4

\* blocks of a batch, and tokens of the text the transformation call returns
MaxBatchItems == 3

MaxResultLen == 5

\* annotations matching one rendered block
MaxAnns == 2

\* notes are taken until the clock that names them reaches this id
MaxNoteId == 4

\* translation passes started in one run of the component
MaxPasses == 2

\* deltas streamed by one singleton call
MaxDeltas == 1

\* lines of the short documents a first pass is started on
MaxStartLines == 2

\* characters of a string given to djb2Hash
MaxHashLen == 6

\* throttle intervals the clock runs for
MaxIntervals == 3

\* ------------------------------------------------------- program constants

\* item.block.content.length > 1000
SingleThreshold == 1000

\* settings?.batchSize || 10
DefaultBatchSize == 10

\* settings?.concurrency || 3
DefaultConcurrency == 3

\* now - lastUpdateRef.current > 100
ThrottleInterval == 100

\* ------------------------------------------------------------------ strings

NL == "\n"

IsSpace(c) == c \in {" ", NL}

\* \w of the source's regular expressions
IsWord(c) == c \in {"a", "b", "j", "L", "p", "q", "x"}

RECURSIVE Concat(_)
\* Array.prototype.join('') of a list of strings
Concat(ss) == IF ss = <<>> THEN <<>> ELSE Head(ss) \o Concat(Tail(ss))

RECURSIVE Join(_, _)
\* Array.prototype.join(sep)
Join(ss, sep) ==
    IF ss = <<>> THEN <<>>
    ELSE IF Len(ss) = 1 THEN ss[1]
    ELSE ss[1] \o sep \o Join(Tail(ss), sep)

RECURSIVE SplitFrom(_, _, _, _)
SplitFrom(s, c, i, cur) ==
    IF i > Len(s) THEN <<cur>>
    ELSE IF s[i] = c THEN <<cur>> \o SplitFrom(s, c, i + 1, <<>>)
    ELSE SplitFrom(s, c, i + 1, Append(cur, s[i]))

\* String.prototype.split on a one-token separator: always at least one part
Split(s, c) == SplitFrom(s, c, 1, <<>>)

RECURSIVE TrimLeft(_)
TrimLeft(s) == IF s # <<>> /\ IsSpace(Head(s)) THEN TrimLeft(Tail(s)) ELSE s

RECURSIVE TrimRight(_)
TrimRight(s) ==
    IF s # <<>> /\ IsSpace(s[Len(s)]) THEN TrimRight(SubSeq(s, 1, Len(s) - 1)) ELSE s

\* String.prototype.trim
Trim(s) == TrimRight(TrimLeft(s))

RECURSIVE SeqsUpTo(_, _)
\* all sequences over S of length 0..n
SeqsUpTo(S, n) ==
    IF n = 0 THEN {<<>>}
    ELSE LET shorter == SeqsUpTo(S, n - 1)
         IN  shorter \cup {Append(s, x) : s \in shorter, x \in S}

\* ------------------------------------------------------------------ parsing

\* REGEX.codeFenceStart = /^```(\w*)/ : the line starts with a fence
codeFenceStart(line) == line # <<>> /\ line[1] = "F"

RECURSIVE WordPrefix(_)
WordPrefix(s) ==
    IF s # <<>> /\ IsWord(Head(s)) THEN <<Head(s)>> \o WordPrefix(Tail(s)) ELSE <<>>

\* group 1 of codeFenceStart: the word characters that follow the fence
FenceLang(line) == WordPrefix(Tail(line))

\* REGEX.codeFenceEnd = /^```$/
codeFenceEnd(line) == line = <<"F">>

RECURSIVE HashCount(_)
HashCount(s) == IF s # <<>> /\ Head(s) = "#" THEN 1 + HashCount(Tail(s)) ELSE 0

\* REGEX.header = /^(#{1,6})\s+(.*)/
headerMatch(line) ==
    LET n == HashCount(line)
    IN  n >= 1 /\ n <= 6 /\ Len(line) > n /\ IsSpace(line[n + 1])

\* group 1 of the header match
HeaderHashes(line) == SubSeq(line, 1, HashCount(line))

\* group 2 of the header match: what follows the blanks after the hashes
HeaderContent(line) == TrimLeft(SubSeq(line, HashCount(line) + 1, Len(line)))

Block(type, body, prefix, lang, raw) ==
    [type |-> type, content |-> body, prefix |-> prefix, lang |-> lang, raw |-> raw]

\* flushTextBuffer: the pending lines become one text block
flushTextBuffer(st) ==
    IF st.currentTextBuffer # <<>>
    THEN LET raw == Join(st.currentTextBuffer, <<NL>>)
         IN  [st EXCEPT !.blocks = Append(@, Block("text", raw, <<>>, <<>>, raw)),
                        !.currentTextBuffer = <<>>]
    ELSE st

\* the body of the for loop of parseMarkdownIntoBlocks, for one line
ParseLine(st, line) ==
    IF ~st.inCodeBlock /\ codeFenceStart(line)
    THEN [flushTextBuffer(st) EXCEPT !.inCodeBlock = TRUE,
                                     !.codeLang = FenceLang(line),
                                     !.codeBuffer = <<>>]
    ELSE IF st.inCodeBlock
    THEN IF codeFenceEnd(line)
         THEN [st EXCEPT !.inCodeBlock = FALSE,
                         !.blocks = Append(@,
                             Block("code", Join(st.codeBuffer, <<NL>>), <<>>, st.codeLang,
                                   <<"F">> \o st.codeLang \o <<NL>>
                                     \o Join(st.codeBuffer, <<NL>>) \o <<NL, "F">>)),
                         !.codeBuffer = <<>>]
         ELSE [st EXCEPT !.codeBuffer = Append(@, line)]
    ELSE IF headerMatch(line)
    THEN [flushTextBuffer(st) EXCEPT !.blocks = Append(@,
             Block("header", HeaderContent(line), HeaderHashes(line) \o <<" ">>, <<>>, line))]
    ELSE IF Trim(line) = <<>>
    THEN [flushTextBuffer(st) EXCEPT !.blocks = Append(@,
             Block("empty", <<>>, <<>>, <<>>, <<>>))]
    ELSE [st EXCEPT !.currentTextBuffer = Append(@, line)]

RECURSIVE ParseLines(_, _)
ParseLines(st, lines) ==
    IF lines = <<>> THEN st ELSE ParseLines(ParseLine(st, Head(lines)), Tail(lines))

parseMarkdownIntoBlocks(t) ==
    flushTextBuffer(ParseLines(
        [blocks |-> <<>>, currentTextBuffer |-> <<>>, inCodeBlock |-> FALSE,
         codeLang |-> <<>>, codeBuffer |-> <<>>],
        Split(t, NL))).blocks

\* ------------------------------------------------- segmentation harness

\* the lines documents are built from: blank, whitespace-only, text, heading,
\* fence with and without a language tag, fence with text after the tag
Lines ==
    { <<>>, <<" ">>, <<"a">>, <<"#", " ", "a">>, <<"#", "a">>,
      <<"F">>, <<"F", "j">>, <<"F", "j", " ", "a">> }

Documents == { Join(ls, <<NL>>) : ls \in (SeqsUpTo(Lines, MaxLines) \ {<<>>}) }

ParseInit == text \in Documents /\ parsed = <<>>

\* one call of parseMarkdownIntoBlocks
Parse ==
    /\ parsed = <<>>
    /\ parsed' = <<parseMarkdownIntoBlocks(text)>>
    /\ UNCHANGED <<text, partIn, partOut, batchIn, batchOut, hlIn, hlOut,
                   hashIn, hashOut, jobIn, jobOut, previewVars, notesVars, appVars>>

\* ------------------------------------------------------------ partitioning

RECURSIVE StrLen(_)
\* String.prototype.length: "L" is 1001 letters, "F" three backticks, "S" the
\* fifteen characters of <<<BATCH_SEP>>>
StrLen(s) ==
    IF s = <<>> THEN 0
    ELSE (CASE Head(s) = "L" -> 1001 [] Head(s) = "F" -> 3 [] Head(s) = "S" -> 15
            [] OTHER -> 1) + StrLen(Tail(s))

\* item.block.type === 'code' || item.block.content.length > 1000
IsSingle(item) == item.block.type = "code" \/ StrLen(item.block.content) > SingleThreshold

\* a faulty variant: a batch is closed only when it is over batchSize
BatchFull_over(currentBatch, batchSize) == Len(currentBatch) > batchSize

\* currentBatch.length >= batchSize
BatchFull(currentBatch, batchSize) == Len(currentBatch) >= batchSize

Job(type, items) == [type |-> type, items |-> items]

\* the body of the for loop over blocksToTranslate, for one item
BatchStep(st, item, batchSize) ==
    IF IsSingle(item)
    THEN [batches |-> (IF st.currentBatch # <<>>
                       THEN Append(st.batches, Job("batch", st.currentBatch))
                       ELSE st.batches) \o <<Job("single", <<item>>)>>,
          currentBatch |-> <<>>]
    ELSE LET cb == Append(st.currentBatch, item)
         IN  IF BatchFull(cb, batchSize)
             THEN [batches |-> Append(st.batches, Job("batch", cb)), currentBatch |-> <<>>]
             ELSE [batches |-> st.batches, currentBatch |-> cb]

RECURSIVE BatchLoop(_, _, _)
BatchLoop(st, items, batchSize) ==
    IF items = <<>> THEN st
    ELSE BatchLoop(BatchStep(st, Head(items), batchSize), Tail(items), batchSize)

\* const batches = ...: the jobs of a pass, from its stale blocks
MakeBatches(items, batchSize) ==
    LET st == BatchLoop([batches |-> <<>>, currentBatch |-> <<>>], items, batchSize)
    IN  IF st.currentBatch # <<>>
        THEN Append(st.batches, Job("batch", st.currentBatch))
        ELSE st.batches

\* settings?.batchSize || 10
EffectiveBatchSize(s) ==
    IF s.batchSize = 0 THEN DefaultBatchSize ELSE s.batchSize

\* settings?.concurrency || 3
EffectiveConcurrency(s) ==
    IF s.concurrency = 0 THEN DefaultConcurrency ELSE s.concurrency

\* ----------------------------------------------------- partition harness

\* the blocks the harnesses draw from: a paragraph, a heading, a code block
\* and a paragraph over the singleton threshold
SampleBlocks ==
    { Block("text", <<"a">>, <<>>, <<>>, <<"a">>),
      Block("header", <<"b">>, <<"#", " ">>, <<>>, <<"#", " ", "b">>),
      Block("code", <<"x">>, <<>>, <<"j">>, <<"F", "j", NL, "x", NL, "F">>),
      Block("text", <<"L">>, <<>>, <<>>, <<"L">>) }

\* blocks.map((b, i) => ({ block: b, index: i })), indices from 1
Indexed(bs) == [i \in 1..Len(bs) |-> [block |-> bs[i], index |-> i]]

PartitionInit ==
    /\ partIn \in { [items |-> Indexed(bs), batchSize |-> n] :
                       bs \in SeqsUpTo(SampleBlocks, MaxItems), n \in 0..MaxItems }
    /\ partOut = <<>>

\* one run of the batches loop
Partition ==
    /\ partOut = <<>>
    /\ partOut' = <<MakeBatches(partIn.items, EffectiveBatchSize(partIn))>>
    /\ UNCHANGED <<partIn, text, parsed, batchIn, batchOut, hlIn, hlOut,
                   hashIn, hashOut, jobIn, jobOut, previewVars, notesVars, appVars>>

\* ------------------------------------------------------ batch continuation

EmptyCache == [k \in {} |-> <<>>]

\* Map.prototype.has / get / set of chunkCacheRef.current
CacheHas(c, k) == k \in DOMAIN c

CacheSet(c, k, v) == [x \in (DOMAIN c) \cup {k} |-> IF x = k THEN v ELSE c[x]]

\* const delimiter = "\n\n<<<BATCH_SEP>>>\n\n"
Delimiter == <<NL, NL, "S", NL, NL>>

\* a faulty variant: the blocks are joined with their markers
BatchFullText_raw(items) == Join([i \in 1..Len(items) |-> items[i].block.raw], Delimiter)

\* batchItems.map(item => item.block.content).join(delimiter)
BatchFullText(items) == Join([i \in 1..Len(items) |-> items[i].block.content], Delimiter)

\* a faulty variant: a missing or empty part leaves the item empty
BatchTranslation_nofallback(parts, idx, item) ==
    IF idx <= Len(parts) THEN Trim(parts[idx]) ELSE <<>>

\* parts[idx] ? parts[idx].trim() : item.block.content
BatchTranslation(parts, idx, item) ==
    IF idx <= Len(parts) /\ parts[idx] # <<>> THEN Trim(parts[idx]) ELSE item.block.content

\* `${item.block.prefix || ''}${translation}`
BatchFinalBlock(parts, idx, item) == item.block.prefix \o BatchTranslation(parts, idx, item)

RECURSIVE BatchForEach(_, _, _, _)
\* batchItems.forEach((item, idx) => ...), from item idx on: the cache entry,
\* the rendered slot and the completed counter of each item in turn
BatchForEach(st, items, parts, idx) ==
    IF idx > Len(items) THEN st
    ELSE LET item == items[idx]
             finalBlock == BatchFinalBlock(parts, idx, item)
         IN  BatchForEach(
                 [cache |-> CacheSet(st.cache, item.block.raw, finalBlock),
                  rendered |-> [st.rendered EXCEPT ![item.index] = finalBlock],
                  completed |-> st.completed + 1],
                 items, parts, idx + 1)

\* the try body of processBatch after the await, for the returned text
BatchResolved(st, items, translatedTextFull) ==
    BatchForEach(st, items, Split(translatedTextFull, "S"), 1)

\* --------------------------------------------------- batch-result harness

BatchBlocks == { b \in SampleBlocks : ~IsSingle([block |-> b, index |-> 1]) }

BatchInit ==
    /\ batchIn \in { [items |-> Indexed(bs), result |-> r] :
                        bs \in (SeqsUpTo(BatchBlocks, MaxBatchItems) \ {<<>>}),
                        r \in SeqsUpTo({"x", "S", NL}, MaxResultLen) }
    /\ batchOut = <<>>

\* the state a batch's continuation starts from: nothing cached, every slot
\* showing its block's raw text, nothing completed
BatchStart(items) ==
    [cache |-> EmptyCache,
     rendered |-> [i \in 1..Len(items) |-> items[i].block.raw],
     completed |-> 0]

\* one resolved transformation call of a batch
ProcessBatch ==
    /\ batchOut = <<>>
    /\ batchOut' = <<BatchResolved(BatchStart(batchIn.items), batchIn.items, batchIn.result)>>
    /\ UNCHANGED <<batchIn, text, parsed, partIn, partOut, hlIn, hlOut,
                   hashIn, hashOut, jobIn, jobOut, previewVars, notesVars, appVars>>

\* ------------------------------------------------------------ highlighting

\* React nodes: a string, an element rendered by CodeBlock (or with tagName
\* code), any other element, an array of nodes
Str(s) == [k |-> "str", s |-> s, children |-> <<>>]

El(cs) == [k |-> "el", s |-> <<>>, children |-> cs]

Code(s) == [k |-> "code", s |-> <<>>, children |-> <<Str(s)>>]

Arr(cs) == [k |-> "arr", s |-> <<>>, children |-> cs]

RECURSIVE getTextContent(_)
getTextContent(node) ==
    IF node.k = "str" THEN node.s
    ELSE Concat([i \in 1..Len(node.children) |-> getTextContent(node.children[i])])

RECURSIVE InsertByStart(_, _)
\* a placed after every element whose startOffset is not greater (a stable sort)
InsertByStart(sorted, a) ==
    IF sorted = <<>> THEN <<a>>
    ELSE IF Head(sorted).startOffset <= a.startOffset
         THEN <<Head(sorted)>> \o InsertByStart(Tail(sorted), a)
         ELSE <<a>> \o sorted

RECURSIVE SortByStart(_)
\* .sort((a, b) => a.startOffset - b.startOffset)
SortByStart(as) ==
    IF as = <<>> THEN <<>>
    ELSE InsertByStart(SortByStart(SubSeq(as, 1, Len(as) - 1)), as[Len(as)])

\* annotations.filter(a => a.startOffset < end && a.endOffset > start).sort(...)
Relevant(annotations, start, end) ==
    LET hit(a) == a.startOffset < end /\ a.endOffset > start
    IN  SortByStart(SelectSeq(annotations, hit))

Max(a, b) == IF a >= b THEN a ELSE b

Min(a, b) == IF a <= b THEN a ELSE b

\* a piece of a text leaf: its characters, the block offsets [from, to) they
\* were cut at, and the annotation that marks them (0: plain text)
Fragment(kind, str, from, to, ann) ==
    [kind |-> kind, content |-> str, from |-> from, to |-> to, ann |-> ann]

\* a faulty variant: a span starts at its annotation whatever is marked already
HlStart_unclipped(ann, cursor) == ann.startOffset

\* Math.max(ann.startOffset, cursor)
HlStart(ann, cursor) == Max(ann.startOffset, cursor)

\* Math.min(ann.endOffset, end)
HlEnd(ann, end) == Min(ann.endOffset, end)

\* text.slice(from - start, to - start)
Slice(str, start, from, to) == SubSeq(str, from - start + 1, to - start)

RECURSIVE HighlightLoop(_, _, _, _, _, _)
\* for (const ann of relevant) ..., then the rest after the cursor
HighlightLoop(str, start, end, relevant, cursor, fragments) ==
    IF relevant = <<>>
    THEN IF cursor < end
         THEN Append(fragments, Fragment("plain", Slice(str, start, cursor, end), cursor, end, 0))
         ELSE fragments
    ELSE LET ann == Head(relevant)
             hlStart == HlStart(ann, cursor)
             hlEnd == HlEnd(ann, end)
         IN  IF hlStart >= hlEnd
             THEN HighlightLoop(str, start, end, Tail(relevant), cursor, fragments)
             ELSE HighlightLoop(str, start, end, Tail(relevant), hlEnd,
                     (IF hlStart > cursor
                      THEN Append(fragments,
                              Fragment("plain", Slice(str, start, cursor, hlStart),
                                       cursor, hlStart, 0))
                      ELSE fragments)
                     \o <<Fragment("mark", Slice(str, start, hlStart, hlEnd),
                                   hlStart, hlEnd, ann.id)>>)

\* the string branch of RecursiveHighlighter, for a leaf that starts at `start`
HighlightString(str, start, annotations) ==
    LET end == start + Len(str)
        relevant == Relevant(annotations, start, end)
    IN  IF relevant = <<>>
        THEN <<Fragment("plain", str, start, end, 0)>>
        ELSE HighlightLoop(str, start, end, relevant, start, <<>>)

\* a faulty variant: a nested code element leaves the counter where it was
CodeAdvance_none(offset, node) == offset

\* currentOffset.value += text.length, for a nested code element
CodeAdvance(offset, node) == offset + Len(getTextContent(node))

RECURSIVE RecursiveHighlighter(_, _, _)
RECURSIVE HighlightChildren(_, _, _, _)
\* the walk of one node: the fragments it renders and the offset counter after it
RecursiveHighlighter(node, annotations, currentOffset) ==
    CASE node.k = "str" ->
            [fragments |-> HighlightString(node.s, currentOffset, annotations),
             offset |-> currentOffset + Len(node.s)]
      [] node.k = "code" ->
            [fragments |-> <<Fragment("code", getTextContent(node), currentOffset,
                                      CodeAdvance(currentOffset, node), 0)>>,
             offset |-> CodeAdvance(currentOffset, node)]
      [] OTHER ->
            HighlightChildren(node.children, annotations, currentOffset, <<>>)

\* React.Children.map / node.map over the children, sharing the counter
HighlightChildren(children, annotations, currentOffset, fragments) ==
    IF children = <<>> THEN [fragments |-> fragments, offset |-> currentOffset]
    ELSE LET r == RecursiveHighlighter(Head(children), annotations, currentOffset)
         IN  HighlightChildren(Tail(children), annotations, r.offset,
                               fragments \o r.fragments)

\* AnnotatedBlock's render: the walk of its children from offset 0
AnnotatedBlock(children, blockAnnotations) ==
    RecursiveHighlighter(children, blockAnnotations, 0)

\* ---------------------------------------------------- highlighter harness

HelloWorld == <<"h", "e", "l", "l", "o", " ", "w", "o", "r", "l", "d">>

Hell == SubSeq(HelloWorld, 1, 4)

\* the children of the rendered blocks the harness draws from: one string,
\* adjacent strings, strings inside nested elements, a nested code element,
\* an element without children
SampleChildren ==
    { Arr(<<Str(Hell)>>),
      Str(SubSeq(Hell, 1, 3)),
      Arr(<<Str(SubSeq(Hell, 1, 2)), Str(SubSeq(Hell, 3, 4))>>),
      Arr(<<Str(SubSeq(Hell, 1, 1)), El(<<Str(SubSeq(Hell, 2, 3))>>), Str(SubSeq(Hell, 4, 4))>>),
      Arr(<<El(<<Str(SubSeq(Hell, 1, 1)), El(<<Str(SubSeq(Hell, 2, 2))>>)>>),
            Str(SubSeq(Hell, 3, 4))>>),
      Arr(<<Str(SubSeq(Hell, 1, 1)), Code(SubSeq(Hell, 2, 3)), Str(SubSeq(Hell, 4, 4))>>),
      Arr(<<El(<<>>), Str(SubSeq(Hell, 1, 2)), El(<<Code(SubSeq(Hell, 3, 3))>>),
            Str(SubSeq(Hell, 4, 4))>>) }

\* the ranges a selection inside a block of n characters can produce
\* (start = min, end = max of the two selection offsets), one past the end
\* included: a range recorded on a longer text with the same hash
Ranges(n) == { [startOffset |-> a, endOffset |-> b] : a \in 0..n, b \in 1..(n + 1) }

Annotation(id, r) == [id |-> id, startOffset |-> r.startOffset, endOffset |-> r.endOffset]

AnnotationLists(n) ==
    { [i \in 1..Len(rs) |-> Annotation(i, rs[i])] :
        rs \in SeqsUpTo({r \in Ranges(n) : r.startOffset < r.endOffset}, MaxAnns) }

\* the scenario of the specification: [5, 9) on "hello world"
HelloWorldInput ==
    [children |-> Str(HelloWorld),
     annotations |-> <<Annotation(1, [startOffset |-> 5, endOffset |-> 9])>>]

HighlightInit ==
    /\ hlIn \in { [children |-> c, annotations |-> as] :
                     c \in SampleChildren, as \in AnnotationLists(Len(Hell)) }
                 \cup {HelloWorldInput}
    /\ hlOut = <<>>

\* one render of an annotated block
Render ==
    /\ hlOut = <<>>
    /\ hlOut' = <<AnnotatedBlock(hlIn.children, hlIn.annotations)>>
    /\ UNCHANGED <<hlIn, text, parsed, partIn, partOut, batchIn, batchOut,
                   hashIn, hashOut, jobIn, jobOut, previewVars, notesVars, appVars>>

\* ------------------------------------------------------- the task queue

\* a faulty variant: the queue takes one task more than its concurrency
QueueBusy_over(active, concurrency) == active > concurrency

\* this.active >= this.concurrency
QueueBusy(active, concurrency) == active >= concurrency

RECURSIVE QueueNext(_)
\* TaskQueue.next() on the queue of pass q.  A task of an aborted pass returns
\* at once, and its finally callback (active--, next()) takes the next one.
QueueNext(q) ==
    IF QueueBusy(q.active, EffectiveConcurrency(q.settings)) \/ q.queue = <<>> THEN q
    ELSE LET j == Head(q.queue)
             started == [q EXCEPT !.queue = Tail(@), !.active = @ + 1,
                                  !.startLog = Append(@, j)]
         IN  IF q.aborted
             THEN QueueNext([started EXCEPT !.active = @ - 1, !.jobs[j].st = "done"])
             ELSE [started EXCEPT !.jobs[j].st = "running"]

\* TaskQueue.add(task): push, then next()
QueueAdd(q, j) == QueueNext([q EXCEPT !.queue = Append(@, j)])

RECURSIVE QueueAddAll(_, _)
\* for (const batch of batches) taskQueue.add(...), from job j on
QueueAddAll(q, j) ==
    IF j > Len(q.jobs) THEN q ELSE QueueAddAll(QueueAdd(q, j), j + 1)

\* a faulty variant: the finally callback does not take the next task
TaskFinally_nonext(q) == [q EXCEPT !.active = @ - 1]

\* the finally callback of a settled task: active--, next()
TaskFinally(q) == QueueNext([q EXCEPT !.active = @ - 1])

\* ------------------------------------------------------- runTranslation

\* blocks.filter(b => b.type !== 'empty').length
TotalBlocks(blocks) == Cardinality({i \in 1..Len(blocks) : blocks[i].type # "empty"})

\* cached || block.raw, and '' for a separator
RenderedBlock(cache, block) ==
    IF block.type = "empty" THEN <<>>
    ELSE IF CacheHas(cache, block.raw) /\ cache[block.raw] # <<>>
         THEN cache[block.raw]
         ELSE block.raw

\* a faulty variant: separators are taken for stale blocks too
IsStale_separators(cache, block) == ~CacheHas(cache, block.raw)

\* block.type !== 'empty' && !chunkCacheRef.current.has(block.raw)
IsStale(cache, block) == block.type # "empty" /\ ~CacheHas(cache, block.raw)

BlocksToTranslate(cache, blocks) ==
    LET stale(item) == IsStale(cache, item.block)
    IN  SelectSeq(Indexed(blocks), stale)

\* the closure of one runTranslation call: its blocks, its rendered slots, its
\* counter, its controller's flag, its jobs and its task queue
NewPass(text0, settings0, cache) ==
    LET blocks == parseMarkdownIntoBlocks(text0)
        stale == BlocksToTranslate(cache, blocks)
        batches == MakeBatches(stale, EffectiveBatchSize(settings0))
    IN  QueueAddAll(
            [blocks |-> blocks,
             totalBlocks |-> TotalBlocks(blocks),
             currentRenderedBlocks |-> [i \in 1..Len(blocks) |-> RenderedBlock(cache, blocks[i])],
             completedCount |-> TotalBlocks(blocks) - Len(stale),
             settings |-> settings0,
             aborted |-> FALSE,
             jobs |-> [j \in 1..Len(batches) |->
                          [type |-> batches[j].type, items |-> batches[j].items,
                           st |-> "queued", accumulatedStream |-> <<>>, deltas |-> 0]],
             queue |-> <<>>,
             active |-> 0,
             startLog |-> <<>>,
             checkDone |-> stale # <<>>],
            1)

\* a faulty variant: the previous controller is left as it is
AbortCurrent_none(ps, ref) == ps

\* controller.abort() on the controller the ref holds
AbortCurrent(ps, ref) ==
    [i \in 1..Len(ps) |-> IF i = ref THEN [ps[i] EXCEPT !.aborted = TRUE] ELSE ps[i]]

\* a faulty variant: the cache outlives a change of settings
ClearOnSettings_never(cache, changed) == cache

\* useEffect(() => chunkCacheRef.current.clear(), [settings])
ClearOnSettings(cache, changed) == IF changed THEN EmptyCache ELSE cache

\* the raw texts of the blocks a job sends
JobRaws(job) == { job.items[i].block.raw : i \in 1..Len(job.items) }

\* ------------------------------------------------- the transformation call

\* what the provider configured by cfg returns for one piece of content
Translated(cfg, c) == <<cfg>> \o c

\* the text a batch call resolves to: every part translated, the delimiters
\* kept (the batch-result harness covers every other returned text)
BatchResult(items, cfg) ==
    Join([i \in 1..Len(items) |-> Translated(cfg, items[i].block.content)], Delimiter)

\* ------------------------------------------------------------ the component

Contents ==
    { <<"#", " ", "b", NL, NL, "a">>,
      <<"a", NL, NL, "F", "j", NL, "x", NL, "F">>,
      <<"a", NL, NL, "a">> }

\* AISettings: cfg stands for provider, baseUrl, apiKey and model; 0 is a
\* batchSize or concurrency that is not set
SettingsSet ==
    { [cfg |-> "p", batchSize |-> 1, concurrency |-> 1],
      [cfg |-> "q", batchSize |-> 0, concurrency |-> 0] }

\* no note is taken and no block is rendered
NotesIdle == appAnnotations = <<>> /\ shown = <<>> /\ highlights = <<>>
\* the text of the first history entry (readmeContent's INITIAL_MARKDOWN)
INITIAL_MARKDOWN == "i"
AppIdle == history = <<INITIAL_MARKDOWN>> /\ currentIndex = 0 /\ uploads = <<>>

HarnessIdle ==
    /\ NotesIdle
    /\ AppIdle
    /\ text = <<>> /\ parsed = <<>>
    /\ partIn = <<>> /\ partOut = <<>>
    /\ batchIn = <<>> /\ batchOut = <<>>
    /\ hlIn = <<>> /\ hlOut = <<>>
    /\ hashIn = <<>> /\ hashOut = <<>>
    /\ jobIn = <<>> /\ jobOut = <<>>

\* the component after its first render with translation off (App's default):
\* the effects have cleared the cache and shown the content
PreviewInit ==
    /\ content \in Contents
    /\ settings \in SettingsSet
    /\ enableTranslation = FALSE
    /\ mounted = TRUE
    /\ chunkCacheRef = EmptyCache
    /\ abortControllerRef = 0
    /\ displayedContent = content
    /\ isTranslating = FALSE
    /\ progress = [current |-> 0, total |-> 0]
    /\ parentTranslating = FALSE
    /\ now = 0 /\ lastUpdateRef = 0
    /\ passes = <<>>

\* the status the parent holds after the component's isTranslating became t:
\* the effect on [isTranslating] reports a changed value
StatusEffect(t) == IF t # isTranslating THEN t ELSE parentTranslating

\* The effects of a render with new props, in declaration order: the cleanup
\* of the previous translation effect, the cache effect on [settings], the
\* translation effect on [content, enableTranslation, settings].
Effects(c, e, s, newSettings) ==
    LET aborted == AbortCurrent(passes, abortControllerRef)
        cache == ClearOnSettings(chunkCacheRef, newSettings)
        q == NewPass(c, s, cache)
    IN  /\ content' = c
        /\ enableTranslation' = e
        /\ settings' = s
        /\ chunkCacheRef' = cache
        /\ IF ~e
           THEN /\ passes' = aborted
                /\ abortControllerRef' = abortControllerRef
                /\ isTranslating' = FALSE
                /\ parentTranslating' = StatusEffect(FALSE)
                /\ displayedContent' = c
                /\ UNCHANGED progress
           ELSE /\ passes' = Append(aborted, q)
                /\ abortControllerRef' = Len(passes) + 1
                /\ displayedContent' = Join(q.currentRenderedBlocks, <<NL>>)
                /\ IF q.jobs = <<>>
                   THEN /\ isTranslating' = FALSE
                        /\ parentTranslating' = StatusEffect(FALSE)
                        /\ UNCHANGED progress
                   ELSE /\ isTranslating' = TRUE
                        /\ parentTranslating' = TRUE
                        /\ progress' = [current |-> q.completedCount,
                                        total |-> q.totalBlocks]
        /\ UNCHANGED <<mounted, harnessVars, notesVars, appVars, now, lastUpdateRef>>

\* a render whose settings object is new exactly when its value is
RunEffects(c, e, s) == Effects(c, e, s, s # settings)

\* JSON.stringify of an AISettings object: the values in key order
JSONstringify(s) == <<s.cfg, s.concurrency, s.batchSize>>

\* a faulty variant: the comparison is left out
handleSaveSettings_always(aiSettings, newSettings) == <<newSettings>>

\* App's handleSaveSettings: the object given to setAiSettings (<<>> when it
\* returns early)
handleSaveSettings(aiSettings, newSettings) ==
    IF JSONstringify(newSettings) = JSONstringify(aiSettings)
    THEN <<>>
    ELSE <<newSettings>>

\* the run is within its bound: another pass can still be started
CanStart == Len(passes) < MaxPasses

\* the editor's text changes (handleMarkdownChange, undo, redo, upload)
ChangeContent ==
    \E c \in Contents \ {content} :
        mounted /\ CanStart /\ RunEffects(c, enableTranslation, settings)

\* the settings modal saves the object s: handleSaveSettings, then the render
\* with the new aiSettings object if one was set
SaveSettings ==
    \E s \in SettingsSet :
        /\ mounted
        /\ LET set == handleSaveSettings(settings, s)
           IN  IF set = <<>>
               THEN UNCHANGED vars
               ELSE CanStart /\ Effects(content, enableTranslation, set[1], TRUE)

\* the translation switch is toggled
ToggleTranslation ==
    /\ mounted
    /\ enableTranslation \/ CanStart
    /\ RunEffects(content, ~enableTranslation, settings)

\* the component unmounts: the cleanup of the translation effect
Unmount ==
    /\ mounted
    /\ mounted' = FALSE
    /\ passes' = (IF enableTranslation THEN AbortCurrent(passes, abortControllerRef) ELSE passes)
    /\ UNCHANGED <<content, enableTranslation, settings, chunkCacheRef, abortControllerRef,
                   displayedContent, isTranslating, progress, parentTranslating,
                   harnessVars, notesVars, appVars, now, lastUpdateRef>>

\* ------------------------------------------------------------------- jobs

Running(q, j, type) == q.jobs[j].st = "running" /\ q.jobs[j].type = type

\* updateProgress's newProgress for a counter value
NewProgress(completedCount, totalBlocks) ==
    [current |-> Min(completedCount, totalBlocks), total |-> totalBlocks]

\* The status the parent holds once updateProgress has run.  It hands true
\* and a new progress object to the parent, whose render hands the component
\* a new onTranslatingStatusChange; the effect on [isTranslating,
\* onTranslatingStatusChange] then reports the component's own isTranslating.
StatusAfterProgress == isTranslating

\* processBatch after its await resolved: the try body, then the task's finally
BatchResolve(p, j) ==
    LET q == passes[p]
        job == q.jobs[j]
        r == BatchResolved([cache |-> chunkCacheRef, rendered |-> q.currentRenderedBlocks,
                            completed |-> q.completedCount],
                           job.items, BatchResult(job.items, q.settings.cfg))
        q1 == [q EXCEPT !.currentRenderedBlocks = r.rendered,
                        !.completedCount = r.completed,
                        !.jobs[j].st = "done"]
        q2 == TaskFinally(q1)
    IN  /\ Running(q, j, "batch")
        /\ passes' = [passes EXCEPT ![p] = q2]
        /\ chunkCacheRef' = r.cache
        /\ displayedContent' = Join(r.rendered, <<NL>>)
        /\ progress' = NewProgress(r.completed, q.totalBlocks)
        /\ parentTranslating' = StatusAfterProgress
        /\ UNCHANGED <<content, enableTranslation, settings, mounted, abortControllerRef,
                       isTranslating, harnessVars, notesVars, appVars, now, lastUpdateRef>>

\* a settled task that wrote nothing: its catch block, or its return on the
\* aborted flag; then the task's finally
SettleSilently(p, j, st) ==
    /\ passes' = [passes EXCEPT ![p] = TaskFinally([passes[p] EXCEPT !.jobs[j].st = st])]
    /\ UNCHANGED <<content, enableTranslation, settings, mounted, chunkCacheRef,
                   abortControllerRef, displayedContent, isTranslating, progress,
                   parentTranslating, harnessVars, notesVars, appVars, now, lastUpdateRef>>

\* processBatch when the transformation call throws
BatchReject(p, j) == Running(passes[p], j, "batch") /\ SettleSilently(p, j, "failed")

\* prefix and suffix of processSingle: the fence lines of a code block
SinglePrefix(block) ==
    IF block.type = "code" THEN <<"F">> \o block.lang \o <<NL>> ELSE block.prefix

SingleSuffix(block) == IF block.type = "code" THEN <<NL, "F">> ELSE <<>>

\* a faulty variant: the whole block goes to the transformation call
SingleRequest_raw(block) == block.raw

\* the first argument of translateMarkdownToChinese in processSingle
SingleRequest(block) == block.content

\* `${prefix}${t}${suffix}`
SingleBlock(block, t) == SinglePrefix(block) \o t \o SingleSuffix(block)

\* a faulty variant: the block is closed over what the deltas delivered
SingleFinal_stream(block, accumulatedStream, t) == SingleBlock(block, accumulatedStream)

\* finalTranslatedBlock = `${prefix}${t}${suffix}`, t being what the call
\* returned
SingleFinal(block, accumulatedStream, t) == SingleBlock(block, t)

\* The onDelta callback of processSingle, for a pass that is not aborted (on
\* the aborted flag it returns at once).  publish is the clock's verdict on
\* now - lastUpdateRef.current > 100: Spec does not follow the clock and takes
\* either verdict, SpecThrottle computes it from now.
SingleDelta(p, j, publish) ==
    LET q == passes[p]
        job == q.jobs[j]
        item == job.items[1]
        acc == job.accumulatedStream \o <<q.settings.cfg>>
        rendered == [q.currentRenderedBlocks EXCEPT ![item.index] = SingleBlock(item.block, acc)]
    IN  /\ Running(q, j, "single")
        /\ ~q.aborted
        /\ job.deltas < MaxDeltas
        /\ passes' = [passes EXCEPT
                         ![p].jobs[j].accumulatedStream = acc,
                         ![p].jobs[j].deltas = @ + 1,
                         ![p].currentRenderedBlocks = IF publish THEN rendered ELSE @]
        /\ displayedContent' = (IF publish THEN Join(rendered, <<NL>>) ELSE displayedContent)
        /\ lastUpdateRef' = (IF publish THEN now ELSE lastUpdateRef)
        /\ UNCHANGED <<content, enableTranslation, settings, mounted, chunkCacheRef,
                       abortControllerRef, isTranslating, progress, parentTranslating,
                       harnessVars, notesVars, appVars, now>>

\* processSingle after its await resolved
SingleResolve(p, j) ==
    LET q == passes[p]
        item == q.jobs[j].items[1]
        finalTranslatedBlock ==
            SingleFinal(item.block, q.jobs[j].accumulatedStream,
                        Translated(q.settings.cfg, SingleRequest(item.block)))
        cache == CacheSet(chunkCacheRef, item.block.raw, finalTranslatedBlock)
        rendered == [q.currentRenderedBlocks EXCEPT ![item.index] = finalTranslatedBlock]
        q1 == [q EXCEPT !.currentRenderedBlocks = rendered,
                        !.completedCount = @ + 1,
                        !.jobs[j].st = "done"]
        q2 == TaskFinally(q1)
    IN  /\ Running(q, j, "single")
        /\ IF q.aborted
           THEN SettleSilently(p, j, "done")
           ELSE /\ passes' = [passes EXCEPT ![p] = q2]
                /\ chunkCacheRef' = cache
                /\ displayedContent' = Join(rendered, <<NL>>)
                /\ progress' = NewProgress(q1.completedCount, q.totalBlocks)
                /\ parentTranslating' = StatusAfterProgress
                /\ UNCHANGED <<content, enableTranslation, settings, mounted,
                               abortControllerRef, isTranslating, harnessVars, notesVars, appVars, now,
                               lastUpdateRef>>

\* processSingle when the transformation call throws
SingleReject(p, j) == Running(passes[p], j, "single") /\ SettleSilently(p, j, "failed")

\* completedCount >= totalBlocks || controller.signal.aborted
PassOver(q) == q.completedCount >= q.totalBlocks \/ q.aborted

\* a tick of the checkDone interval that finds the pass over (any other tick
\* changes nothing)
CheckDone(p) ==
    /\ passes[p].checkDone
    /\ PassOver(passes[p])
    /\ passes' = [passes EXCEPT ![p].checkDone = FALSE]
    /\ isTranslating' = FALSE
    /\ parentTranslating' = FALSE
    /\ UNCHANGED <<content, enableTranslation, settings, mounted, chunkCacheRef,
                   abortControllerRef, displayedContent, progress, harnessVars, notesVars, appVars, now,
                   lastUpdateRef>>

\* ---------------------------------------------------------- specifications

JobIds == { pj \in (1..MaxPasses) \X (1..(2 * MaxPasses + 2)) :
              pj[1] <= Len(passes) /\ pj[2] <= Len(passes[pj[1]].jobs) }

Init == HarnessIdle /\ PreviewInit

Next ==
    \/ ChangeContent
    \/ SaveSettings
    \/ ToggleTranslation
    \/ Unmount
    \/ \E pj \in JobIds : BatchResolve(pj[1], pj[2])
    \/ \E pj \in JobIds : BatchReject(pj[1], pj[2])
    \/ \E pj \in JobIds, publish \in BOOLEAN : SingleDelta(pj[1], pj[2], publish)
    \/ \E pj \in JobIds : SingleResolve(pj[1], pj[2])
    \/ \E pj \in JobIds : SingleReject(pj[1], pj[2])
    \/ \E p \in 1..Len(passes) : CheckDone(p)

\* the Preview component with its translation passes
Spec == Init /\ [][Next]_vars

\* the component's variables while a harness runs
PreviewIdle ==
    /\ content = <<>> /\ settings = <<>> /\ enableTranslation = FALSE /\ mounted = FALSE
    /\ chunkCacheRef = EmptyCache /\ abortControllerRef = 0 /\ displayedContent = <<>>
    /\ isTranslating = FALSE /\ progress = [current |-> 0, total |-> 0]
    /\ parentTranslating = FALSE /\ now = 0 /\ lastUpdateRef = 0 /\ passes = <<>>
    /\ NotesIdle
    /\ AppIdle

\* parseMarkdownIntoBlocks over the bounded documents
InitParse ==
    /\ ParseInit
    /\ partIn = <<>> /\ partOut = <<>> /\ batchIn = <<>> /\ batchOut = <<>>
    /\ hlIn = <<>> /\ hlOut = <<>>
    /\ hashIn = <<>> /\ hashOut = <<>>
    /\ jobIn = <<>> /\ jobOut = <<>>
    /\ PreviewIdle

SpecParse == InitParse /\ [][Parse]_vars

\* the batches loop over the bounded lists of stale blocks
InitPartition ==
    /\ PartitionInit
    /\ text = <<>> /\ parsed = <<>> /\ batchIn = <<>> /\ batchOut = <<>>
    /\ hlIn = <<>> /\ hlOut = <<>>
    /\ hashIn = <<>> /\ hashOut = <<>>
    /\ jobIn = <<>> /\ jobOut = <<>>
    /\ PreviewIdle

SpecPartition == InitPartition /\ [][Partition]_vars

\* the continuation of processBatch over the bounded batches and results
InitBatch ==
    /\ BatchInit
    /\ text = <<>> /\ parsed = <<>> /\ partIn = <<>> /\ partOut = <<>>
    /\ hlIn = <<>> /\ hlOut = <<>>
    /\ hashIn = <<>> /\ hashOut = <<>>
    /\ jobIn = <<>> /\ jobOut = <<>>
    /\ PreviewIdle

SpecBatch == InitBatch /\ [][ProcessBatch]_vars

\* the highlighter over the bounded blocks and annotation lists
InitHighlight ==
    /\ HighlightInit
    /\ text = <<>> /\ parsed = <<>> /\ partIn = <<>> /\ partOut = <<>>
    /\ batchIn = <<>> /\ batchOut = <<>>
    /\ hashIn = <<>> /\ hashOut = <<>>
    /\ jobIn = <<>> /\ jobOut = <<>>
    /\ PreviewIdle

SpecHighlight == InitHighlight /\ [][Render]_vars

\* a heading, a blank line, a paragraph, a blank line and a closed js fence
FiveBlockDocument ==
    <<"#", " ", "a", NL, NL, "a", NL, NL, "F", "j", NL, "x", NL, "F">>

\* the documents the component is mounted with when only the switch is used
StartContents ==
    { Join(ls, <<NL>>) : ls \in (SeqsUpTo(Lines, MaxStartLines) \ {<<>>}) }
        \cup {FiveBlockDocument}

\* the component after its first render with translation off, on any of the
\* start documents
InitStart ==
    /\ HarnessIdle
    /\ content \in StartContents
    /\ settings \in SettingsSet
    /\ enableTranslation = FALSE
    /\ mounted = TRUE
    /\ chunkCacheRef = EmptyCache
    /\ abortControllerRef = 0
    /\ displayedContent = content
    /\ isTranslating = FALSE
    /\ progress = [current |-> 0, total |-> 0]
    /\ parentTranslating = FALSE
    /\ now = 0 /\ lastUpdateRef = 0
    /\ passes = <<>>

\* the translation effect alone: passes started and cancelled by the switch,
\* before any transformation call settles
SpecStart == InitStart /\ [][ToggleTranslation]_vars

\* ---------------------------------------------------------------- one job

\* what a provider of kind r returns for the text it is sent: the text itself
\* (google-free on a failed request, or text that needs no translation), or
\* a translation of it
Reply(r, sent) == IF r = "same" THEN sent ELSE Translated(r, sent)

\* the rendered slots of a job's blocks before the job ran: their raw text
JobSlots(items) ==
    [k \in { items[i].index : i \in 1..Len(items) } |->
        (CHOOSE item \in { items[i] : i \in 1..Len(items) } : item.index = k).block.raw]

\* processBatch for the reply r: the request, the reply, and what the try
\* body leaves
RunBatch(items, r) ==
    LET sent == BatchFullText(items)
        st == BatchResolved([cache |-> EmptyCache, rendered |-> JobSlots(items),
                             completed |-> 0],
                            items, Reply(r, sent))
    IN  [sent |-> sent, reply |-> Reply(r, sent), rendered |-> st.rendered, cache |-> st.cache]

\* processSingle for the reply r
RunSingle(item, r) ==
    LET sent == SingleRequest(item.block)
        finalTranslatedBlock == SingleBlock(item.block, Reply(r, sent))
    IN  [sent |-> sent, reply |-> Reply(r, sent),
         rendered |-> (item.index :> finalTranslatedBlock),
         cache |-> CacheSet(EmptyCache, item.block.raw, finalTranslatedBlock)]

\* the documents whose jobs are run: the short documents, the five-block
\* document, and a heading too long for a batch
JobContents == StartContents \cup { <<"#", "#", " ", "L">> }

\* the jobs of a first pass over a document
JobsOf(c, s) ==
    LET jobs == NewPass(c, s, EmptyCache).jobs
    IN  { jobs[j] : j \in 1..Len(jobs) }

InitJob ==
    /\ jobIn \in { [job |-> job, reply |-> r] :
                      job \in UNION { JobsOf(c, s) : c \in JobContents, s \in SettingsSet },
                      r \in {"same", "p", "q"} }
    /\ jobOut = <<>>
    /\ text = <<>> /\ parsed = <<>> /\ partIn = <<>> /\ partOut = <<>>
    /\ batchIn = <<>> /\ batchOut = <<>> /\ hlIn = <<>> /\ hlOut = <<>>
    /\ hashIn = <<>> /\ hashOut = <<>>
    /\ PreviewIdle

\* one job from its request to what it wrote
RunJob ==
    /\ jobOut = <<>>
    /\ jobOut' = << IF jobIn.job.type = "batch"
                    THEN RunBatch(jobIn.job.items, jobIn.reply)
                    ELSE RunSingle(jobIn.job.items[1], jobIn.reply) >>
    /\ UNCHANGED <<jobIn, text, parsed, partIn, partOut, batchIn, batchOut, hlIn, hlOut,
                   hashIn, hashOut, previewVars, notesVars, appVars>>

\* the jobs of first passes, each with a reply
SpecJob == InitJob /\ [][RunJob]_vars

\* ------------------------------------------------------------ the throttle

\* a faulty variant: a delta is published when exactly the interval has passed
ThrottleOpen_atInterval(t, last) == t - last >= ThrottleInterval

\* now - lastUpdateRef.current > 100
ThrottleOpen(t, last) == t - last > ThrottleInterval

\* two code blocks, one without and one with a language tag: two singleton
\* jobs that stream side by side under the default concurrency
TwoCodeBlocks ==
    <<"F", NL, "x", NL, "F", NL, "F", "j", NL, "x", NL, "F">>

\* the component after its first render with translation off; the clock is
\* past the first interval, as any Date.now() is
InitThrottle ==
    /\ HarnessIdle
    /\ content = TwoCodeBlocks
    /\ settings \in SettingsSet
    /\ enableTranslation = FALSE
    /\ mounted = TRUE
    /\ chunkCacheRef = EmptyCache
    /\ abortControllerRef = 0
    /\ displayedContent = content
    /\ isTranslating = FALSE
    /\ progress = [current |-> 0, total |-> 0]
    /\ parentTranslating = FALSE
    /\ now = ThrottleInterval + 1 /\ lastUpdateRef = 0
    /\ passes = <<>>

\* time passes: by the length of the interval or by a millisecond more
Tick ==
    /\ \E d \in {ThrottleInterval, ThrottleInterval + 1} :
          /\ now + d <= (MaxIntervals + 1) * ThrottleInterval
          /\ now' = now + d
    /\ UNCHANGED <<content, enableTranslation, settings, mounted, chunkCacheRef,
                   abortControllerRef, displayedContent, isTranslating, progress,
                   parentTranslating, lastUpdateRef, passes, harnessVars, notesVars, appVars>>

\* the onDelta callback with the verdict the clock gives
TimedDelta(p, j) == SingleDelta(p, j, ThrottleOpen(now, lastUpdateRef))

NextThrottle ==
    \/ ToggleTranslation
    \/ Tick
    \/ \E pj \in JobIds : TimedDelta(pj[1], pj[2])
    \/ \E pj \in JobIds : SingleResolve(pj[1], pj[2])
    \/ \E pj \in JobIds : SingleReject(pj[1], pj[2])

\* streaming singleton jobs under the clock
SpecThrottle == InitThrottle /\ [][NextThrottle]_vars

\* ------------------------------------------------------------------ djb2Hash

CR == "\r"

\* \s of the source's regular expressions, and what trim removes
IsWhite(c) == c \in {" ", NL, CR, "\t"}

\* String.prototype.charCodeAt for the characters of the hashed strings
CharCode(c) ==
    CASE c = "\t" -> 9 [] c = NL -> 10 [] c = CR -> 13 [] c = " " -> 32
      [] c = "a" -> 97 [] c = "z" -> 122

RECURSIVE ReplaceCRLF(_)
\* str.replace(/\r\n/g, '\n')
ReplaceCRLF(s) ==
    IF s = <<>> THEN <<>>
    ELSE IF Len(s) >= 2 /\ s[1] = CR /\ s[2] = NL THEN <<NL>> \o ReplaceCRLF(Tail(Tail(s)))
    ELSE <<Head(s)>> \o ReplaceCRLF(Tail(s))

RECURSIVE SkipWhite(_)
SkipWhite(s) == IF s # <<>> /\ IsWhite(Head(s)) THEN SkipWhite(Tail(s)) ELSE s

RECURSIVE CollapseWhite_each(_)
\* a faulty variant: every whitespace character becomes a space of its own
CollapseWhite_each(s) ==
    IF s = <<>> THEN <<>>
    ELSE <<IF IsWhite(Head(s)) THEN " " ELSE Head(s)>> \o CollapseWhite_each(Tail(s))

RECURSIVE CollapseWhite(_)
\* str.replace(/\s+/g, ' ')
CollapseWhite(s) ==
    IF s = <<>> THEN <<>>
    ELSE IF IsWhite(Head(s)) THEN <<" ">> \o CollapseWhite(SkipWhite(s))
    ELSE <<Head(s)>> \o CollapseWhite(Tail(s))

RECURSIVE DropWhiteEnd(_)
DropWhiteEnd(s) ==
    IF s # <<>> /\ IsWhite(s[Len(s)]) THEN DropWhiteEnd(SubSeq(s, 1, Len(s) - 1)) ELSE s

\* String.prototype.trim
TrimWhite(s) == DropWhiteEnd(SkipWhite(s))

\* cleanStr
CleanStr(str) == TrimWhite(CollapseWhite(ReplaceCRLF(str)))

\* A Number that holds an integer, as top * 2^32 + hi * 2^16 + lo with hi and
\* lo in 0 .. 2^16 - 1; its low 32 bits are hi and lo.
Half == 2 ^ 16

Num(top, hi, lo) == [top |-> top, hi |-> hi, lo |-> lo]

\* let hash = 5381
HashSeed == 5381

\* hash << 5: the low 32 bits of hash, shifted within 32 bits, read as a
\* signed 32-bit integer
Shl5(h) ==
    LET lo32 == h.lo * 32
        hi == (h.hi * 32 + lo32 \div Half) % Half
    IN  Num(IF hi >= Half \div 2 THEN -1 ELSE 0, hi, lo32 % Half)

\* a + b on Numbers (exact: the strings are far too short to reach 2^53)
Plus(a, b) ==
    LET lo == a.lo + b.lo
        hi == a.hi + b.hi + lo \div Half
    IN  Num(a.top + b.top + hi \div Half, hi % Half, lo % Half)

\* ((hash << 5) + hash) + cleanStr.charCodeAt(i)
HashStep(h, c) == Plus(Plus(Shl5(h), h), Num(0, 0, CharCode(c)))

RECURSIVE HashLoop(_, _)
HashLoop(h, s) == IF s = <<>> THEN h ELSE HashLoop(HashStep(h, Head(s)), Tail(s))

\* hash >>> 0
ToUint32(h) == [hi |-> h.hi, lo |-> h.lo]

HexDigit(d) ==
    <<"0", "1", "2", "3", "4", "5", "6", "7", "8", "9", "a", "b", "c", "d", "e", "f">>[d + 1]

RECURSIVE HexOf(_)
\* the hex digits of a number, without leading zeros
HexOf(n) == IF n < 16 THEN <<HexDigit(n)>> ELSE HexOf(n \div 16) \o <<HexDigit(n % 16)>>

\* the four hex digits of a 16-bit half
Hex4(n) ==
    <<HexDigit(n \div 4096), HexDigit((n \div 256) % 16), HexDigit((n \div 16) % 16),
      HexDigit(n % 16)>>

\* (hash >>> 0).toString(16)
ToHex(u) == IF u.hi = 0 THEN HexOf(u.lo) ELSE HexOf(u.hi) \o Hex4(u.lo)

djb2Hash(str) == ToHex(ToUint32(HashLoop(Num(0, 0, HashSeed), CleanStr(str))))

\* ------------------------------------------------------------ hash harness

\* the strings given to djb2Hash: letters, blanks, newlines, carriage returns
HashStrings == SeqsUpTo({"a", "z", " ", NL, CR}, MaxHashLen)

InitHash ==
    /\ hashIn \in HashStrings /\ hashOut = <<>>
    /\ text = <<>> /\ parsed = <<>> /\ partIn = <<>> /\ partOut = <<>>
    /\ batchIn = <<>> /\ batchOut = <<>> /\ hlIn = <<>> /\ hlOut = <<>>
    /\ jobIn = <<>> /\ jobOut = <<>>
    /\ PreviewIdle

\* one call of djb2Hash
Hash ==
    /\ hashOut = <<>>
    /\ hashOut' = <<djb2Hash(hashIn)>>
    /\ UNCHANGED <<hashIn, text, parsed, partIn, partOut, batchIn, batchOut, hlIn, hlOut,
                   jobIn, jobOut, previewVars, notesVars, appVars>>

\* djb2Hash over the bounded strings
SpecHash == InitHash /\ [][Hash]_vars

\* ------------------------------------------------------------------ claims

\* the raw texts of the blocks, joined by a newline
JoinRaws(bs) == Join([i \in 1..Len(bs) |-> bs[i].raw], <<NL>>)

\* C1: segmentation is lossless: joining the raw fields of the blocks of
\* a document with a newline gives the document back.
C1_SegmentationLossless == parsed # <<>> => JoinRaws(parsed[1]) = text

\* every job of the pass has settled, by success or by failure
AllSettled(q) == \A j \in 1..Len(q.jobs) : q.jobs[j].st \in {"done", "failed"}

\* C2: the progress a pass reports ends at exactly its total: once every
\* job of an uncancelled pass has settled, by success or by failure, the
\* reported current value equals total.
C2_ProgressReachesTotal ==
    \A p \in 1..Len(passes) :
        (~passes[p].aborted /\ AllSettled(passes[p]))
            => NewProgress(passes[p].completedCount, passes[p].totalBlocks).current
                   = passes[p].totalBlocks

\* a job of pass p ran a write of its result in this step: it set a slot of
\* the pass's rendered blocks and called setDisplayedContent with them
JobWrote(p) ==
    /\ passes'[p].currentRenderedBlocks # passes[p].currentRenderedBlocks
    /\ displayedContent' = Join(passes'[p].currentRenderedBlocks, <<NL>>)

\* C3: once a pass is cancelled, none of its jobs, batch or singleton,
\* writes the displayed document any more.
C3_NoWriteAfterCancel ==
    [][\A p \in 1..Len(passes) : passes[p].aborted => ~JobWrote(p)]_vars

\* the indices of the blocks the jobs of a pass hold
Dispatched(q) ==
    UNION { { q.jobs[j].items[i].index : i \in 1..Len(q.jobs[j].items) } :
              j \in 1..Len(q.jobs) }

NonSeparators(q) == { i \in 1..Len(q.blocks) : q.blocks[i].type # "empty" }

\* C4: a change of the settings clears the whole cache before the next
\* pass schedules its jobs: after the step the cache is empty, and the pass
\* the step starts holds every non-separator block in a job.
C4_ClearedBeforeNextPass ==
    [][settings' # settings =>
          /\ chunkCacheRef' = EmptyCache
          /\ enableTranslation' =>
                /\ Len(passes') = Len(passes) + 1
                /\ Dispatched(passes'[Len(passes')]) = NonSeparators(passes'[Len(passes')])]_vars

\* a cleared cache and a pass that dispatched everything, after a pass under
\* other settings had cached a translation
C4_Witness ==
    /\ Len(passes) = 2
    /\ passes[2].settings # passes[1].settings
    /\ passes[1].completedCount > 0
    /\ passes[1].completedCount
          > passes[1].totalBlocks - Cardinality(Dispatched(passes[1]))
    /\ passes[2].startLog # <<>>
    /\ passes[2].completedCount = 0
    /\ chunkCacheRef = EmptyCache

\* the text came from a call under the configuration cfg
ProducedUnder(v, cfg) == \E i \in 1..Len(v) : v[i] = cfg

\* C5: the cache never holds a translation that a call issued under an
\* earlier configuration produced.
C5_NoStaleConfigInCache ==
    \A k \in DOMAIN chunkCacheRef : ProducedUnder(chunkCacheRef[k], settings.cfg)

\* job j of pass p issues its transformation call in this step
Issues(p, j) ==
    /\ passes'[p].jobs[j].st = "running"
    /\ p > Len(passes) \/ passes[p].jobs[j].st # "running"

\* C6: the stale set of a pass is exactly the non-separator blocks whose
\* raw text has no cache entry, and no transformation call is issued for a
\* raw text that the cache holds.
C6_CacheIdempotence ==
    [][\A p \in 1..Len(passes') :
          /\ p > Len(passes) =>
                Dispatched(passes'[p])
                    = { i \in NonSeparators(passes'[p]) :
                          ~CacheHas(chunkCacheRef', passes'[p].blocks[i].raw) }
          /\ \A j \in 1..Len(passes'[p].jobs) :
                Issues(p, j) =>
                    \A raw \in JobRaws(passes'[p].jobs[j]) : ~CacheHas(chunkCacheRef', raw)]_vars

\* C7: an item of a batch whose returned text has no part for it, or an
\* empty one, gets its own untranslated content behind its heading prefix;
\* every other item gets its trimmed part, in order; and every item is
\* cached and counted as completed.
C7_BatchSplitFallback ==
    batchOut # <<>> =>
        LET items == batchIn.items
            parts == Split(batchIn.result, "S")
            out == batchOut[1]
            expected(i) ==
                items[i].block.prefix
                    \o (IF i > Len(parts) \/ Len(parts[i]) = 0
                        THEN items[i].block.content
                        ELSE Trim(parts[i]))
            lastWith(raw) ==
                CHOOSE i \in 1..Len(items) :
                    /\ items[i].block.raw = raw
                    /\ \A k \in (i + 1)..Len(items) : items[k].block.raw # raw
        IN  /\ \A i \in 1..Len(items) : out.rendered[items[i].index] = expected(i)
            /\ out.completed = Len(items)
            /\ DOMAIN out.cache = { items[i].block.raw : i \in 1..Len(items) }
            /\ \A raw \in DOMAIN out.cache : out.cache[raw] = expected(lastWith(raw))

\* a batch of three items whose returned text has two parts, the third item
\* a heading that keeps its original content
C7_Witness ==
    /\ batchOut # <<>>
    /\ Len(batchIn.items) = 3
    /\ Len(Split(batchIn.result, "S")) = 2
    /\ batchIn.items[3].block.type = "header"
    /\ batchOut[1].rendered[3] = batchIn.items[3].block.raw
    /\ batchOut[1].rendered[1] = <<"x">>

\* the offsets from..to-1
Offsets(from, to) == { i \in from..(to - 1) : TRUE }

\* the offsets the fragments of one kind cover
Covered(fragments, kind) ==
    UNION { Offsets(fragments[i].from, fragments[i].to) :
              i \in { k \in 1..Len(fragments) : fragments[k].kind = kind } }

\* the offsets the annotations cover
Annotated(annotations) ==
    UNION { Offsets(annotations[i].startOffset, annotations[i].endOffset) :
              i \in 1..Len(annotations) }

\* the highlighted spans are pairwise disjoint
MarksDisjoint(fragments) ==
    \A i, k \in 1..Len(fragments) :
        (i < k /\ fragments[i].kind = "mark" /\ fragments[k].kind = "mark")
            => Offsets(fragments[i].from, fragments[i].to)
                   \cap Offsets(fragments[k].from, fragments[k].to) = {}

\* the fragments are the block's plain text cut in order, nothing changed
TextUnchanged(fragments, plain) ==
    /\ Concat([i \in 1..Len(fragments) |-> fragments[i].content]) = plain
    /\ \A i \in 1..Len(fragments) :
          /\ fragments[i].content = SubSeq(plain, fragments[i].from + 1, fragments[i].to)
          /\ fragments[i].from = (IF i = 1 THEN 0 ELSE fragments[i - 1].to)

\* the contents of the highlighted spans, in order
Marked(fragments) ==
    LET mark(f) == f.kind = "mark"
        ms == SelectSeq(fragments, mark)
    IN  [i \in 1..Len(ms) |-> ms[i].content]

\* C8 as stated: the highlighted spans are pairwise disjoint, their union
\* is the union of the annotation ranges clipped to the block's bounds, the
\* rest of the text is emitted unchanged, and [5, 9) on "hello world"
\* highlights exactly "o wo".
C8_UnionClippedToBlock ==
    hlOut # <<>> =>
        LET fragments == hlOut[1].fragments
            plain == getTextContent(hlIn.children)
        IN  /\ MarksDisjoint(fragments)
            /\ Covered(fragments, "mark")
                  = Annotated(hlIn.annotations) \cap Offsets(0, Len(plain))
            /\ TextUnchanged(fragments, plain)
            /\ hlIn = HelloWorldInput => Marked(fragments) = << <<"o", " ", "w", "o">> >>

\* C8: the highlighted spans are pairwise disjoint; their union is the
\* union of the annotation ranges clipped to the part of the block's plain
\* text that lies outside nested code elements; the rest of the text is
\* emitted plain and unchanged; and [5, 9) on "hello world" highlights
\* exactly " wor", the characters at offsets 5 to 8.
C8_HighlightUnion ==
    hlOut # <<>> =>
        LET fragments == hlOut[1].fragments
            plain == getTextContent(hlIn.children)
        IN  /\ MarksDisjoint(fragments)
            /\ Covered(fragments, "mark")
                  = Annotated(hlIn.annotations)
                      \cap (Offsets(0, Len(plain)) \ Covered(fragments, "code"))
            /\ TextUnchanged(fragments, plain)
            /\ hlIn = HelloWorldInput => Marked(fragments) = << <<" ", "w", "o", "r">> >>

\* two overlapping annotations over a block with a nested code element: the
\* spans are the strings before and after the code element, each marked once
C8_Witness ==
    /\ hlOut # <<>>
    /\ Covered(hlOut[1].fragments, "code") = {1, 2}
    /\ Len(hlIn.annotations) = 2
    /\ hlIn.annotations[1].startOffset = 0 /\ hlIn.annotations[1].endOffset = 4
    /\ hlIn.annotations[2].startOffset = 0 /\ hlIn.annotations[2].endOffset = 2
    /\ Covered(hlOut[1].fragments, "mark") = {0, 3}

\* the jobs of a pass that are started and not settled
RunningJobs(q) == { j \in 1..Len(q.jobs) : q.jobs[j].st = "running" }

C10_Partition ==
    partOut # <<>> =>
        LET batches == partOut[1]
            B == IF partIn.batchSize = 0 THEN 10 ELSE partIn.batchSize
            alone(item) ==
                item.block.type = "code" \/ StrLen(item.block.content) > 1000
        IN  /\ Concat([j \in 1..Len(batches) |-> batches[j].items]) = partIn.items
            /\ \A j \in 1..Len(batches) :
                  LET job == batches[j]
                  IN  /\ job.type \in {"batch", "single"}
                      /\ job.type = "single" => Len(job.items) = 1 /\ alone(job.items[1])
                      /\ job.type = "batch" =>
                            /\ Len(job.items) >= 1 /\ Len(job.items) <= B
                            /\ \A i \in 1..Len(job.items) : ~alone(job.items[i])

\* a full batch, then a code block that closes an open batch of one
C10_Witness ==
    /\ partOut # <<>>
    /\ partIn.batchSize = 2
    /\ Len(partOut[1]) = 3
    /\ partOut[1][1].type = "batch" /\ Len(partOut[1][1].items) = 2
    /\ partOut[1][2].type = "batch" /\ Len(partOut[1][2].items) = 1
    /\ partOut[1][3].type = "single" /\ partOut[1][3].items[1].block.type = "code"

\* C11: a failed job leaves its blocks displayed with their original content
\* (the raw text the pass rendered for them before the job ran), also when a
\* singleton fails after deltas were streamed, and caches nothing for them.
C11_FailureLeavesOriginal ==
    \A p \in 1..Len(passes) :
        LET q == passes[p]
        IN  \A j \in 1..Len(q.jobs) :
                q.jobs[j].st = "failed" =>
                    \A i \in 1..Len(q.jobs[j].items) :
                        LET item == q.jobs[j].items[i]
                        IN  /\ q.currentRenderedBlocks[item.index] = item.block.raw
                            /\ CacheHas(chunkCacheRef, item.block.raw) =>
                                  \E p2 \in 1..Len(passes) : \E j2 \in 1..Len(passes[p2].jobs) :
                                      /\ passes[p2].jobs[j2].st = "done"
                                      /\ item.block.raw \in JobRaws(passes[p2].jobs[j2])

RECURSIVE UnclosedFence(_, _, _)
\* the index of the fence-open line of a fence that is still open at the end
\* of the lines, 0 when every fence is closed; open is the index of the fence
\* that is open before line i
UnclosedFence(lines, i, open) ==
    IF i > Len(lines) THEN open
    ELSE IF open = 0
         THEN UnclosedFence(lines, i + 1, IF codeFenceStart(lines[i]) THEN i ELSE 0)
         ELSE UnclosedFence(lines, i + 1, IF codeFenceEnd(lines[i]) THEN 0 ELSE open)

\* C12: in a document whose last fence is never closed, the fence-open line
\* and the lines up to the end of input form one code block, the last block.
C12_UnterminatedFenceKept ==
    parsed # <<>> =>
        LET lines == Split(text, NL)
            k == UnclosedFence(lines, 1, 0)
            blocks == parsed[1]
        IN  k > 0 =>
                /\ blocks # <<>>
                /\ blocks[Len(blocks)].type = "code"
                /\ blocks[Len(blocks)].content = Join(SubSeq(lines, k + 1, Len(lines)), <<NL>>)

\* the types of the blocks, in order
BlockTypes(blocks) == [i \in 1..Len(blocks) |-> blocks[i].type]

\* the indices of the blocks a job holds, in order
JobIndices(job) == [i \in 1..Len(job.items) |-> job.items[i].index]

\* C13: the five-block document segments into heading, separator, text,
\* separator, code; with an empty cache the heading and the text are in jobs
\* of type batch (one batch of both under the default batch size), the code
\* block alone in a singleton job, and the separators in no job.
C13_FiveBlockScenario ==
    \A p \in 1..Len(passes) :
        (content = FiveBlockDocument /\ chunkCacheRef = EmptyCache) =>
            LET q == passes[p]
            IN  /\ BlockTypes(q.blocks) = <<"header", "empty", "text", "empty", "code">>
                /\ Dispatched(q) = {1, 3, 5}
                /\ \A j \in 1..Len(q.jobs) :
                      IF 5 \in Dispatched([jobs |-> <<q.jobs[j]>>])
                      THEN q.jobs[j].type = "single" /\ JobIndices(q.jobs[j]) = <<5>>
                      ELSE q.jobs[j].type = "batch"
                /\ EffectiveBatchSize(q.settings) = DefaultBatchSize =>
                      /\ Len(q.jobs) = 2
                      /\ JobIndices(q.jobs[1]) = <<1, 3>>
                      /\ JobIndices(q.jobs[2]) = <<5>>

\* a pass on the five-block document under the default batch size
C13_Witness ==
    /\ content = FiveBlockDocument
    /\ enableTranslation
    /\ Len(passes) = 1
    /\ settings.batchSize = 0
    /\ Len(passes[1].jobs) = 2
    /\ passes[1].jobs[2].st = "running"

RECURSIVE Words(_, _)
\* the maximal runs of non-whitespace characters of s, in order; cur is the
\* run being read
Words(s, cur) ==
    IF s = <<>> THEN (IF cur = <<>> THEN <<>> ELSE <<cur>>)
    ELSE IF IsWhite(Head(s))
         THEN (IF cur = <<>> THEN <<>> ELSE <<cur>>) \o Words(Tail(s), <<>>)
         ELSE Words(Tail(s), Append(cur, Head(s)))

\* s with every run of whitespace collapsed to one space, and trimmed
WhitespaceNormal(s) == Join(Words(s, <<>>), <<" ">>)

RECURSIVE RollingHash(_, _)
\* the rolling hash u * 33 + charCode, wrapped modulo 2^32, over the string s
RollingHash(u, s) ==
    IF s = <<>> THEN u
    ELSE LET lo == u.lo * 33 + CharCode(Head(s))
             hi == u.hi * 33 + lo \div Half
         IN  RollingHash([hi |-> hi % Half, lo |-> lo % Half], Tail(s))

\* the value of a hex digit, -1 for any other character
DigitValue(c) ==
    IF \E d \in 0..15 : HexDigit(d) = c THEN CHOOSE d \in 0..15 : HexDigit(d) = c ELSE -1

RECURSIVE HexValue(_, _)
\* the 32-bit value the hex digits ds stand for, after the value u
HexValue(u, ds) ==
    IF ds = <<>> THEN u
    ELSE LET lo == u.lo * 16 + DigitValue(Head(ds))
         IN  HexValue([hi |-> u.hi * 16 + lo \div Half, lo |-> lo % Half], Tail(ds))

\* C14: the hash of a string is the hash of its whitespace-normalized form
\* (so strings with equal normalized forms have equal hashes), and it is the
\* hex rendering, without sign or leading zeros, of the rolling hash
\* hash * 33 + charCode from 5381, wrapped modulo 2^32, of that form.
C14_HashOfNormalizedContent ==
    hashOut # <<>> =>
        LET hex == hashOut[1]
            normal == WhitespaceNormal(hashIn)
        IN  /\ hex = djb2Hash(normal)
            /\ hex # <<>>
            /\ \A i \in 1..Len(hex) : DigitValue(hex[i]) >= 0
            /\ Len(hex) <= 8
            /\ Len(hex) > 1 => hex[1] # "0"
            /\ HexValue([hi |-> 0, lo |-> 0], hex)
                  = RollingHash([hi |-> 0, lo |-> HashSeed], normal)

\* "a", a blank, a newline, "zaz": the hash of "a zaz", past 2^32 before the wrap
C14_Witness ==
    /\ hashIn = <<"a", " ", NL, "z", "a", "z">>
    /\ hashOut = << <<"e", "e", "d", "e", "9", "1", "b">> >>

\* job j of pass p takes a delta in this step and publishes it
DeltaPublished(p, j) ==
    /\ passes'[p].jobs[j].deltas > passes[p].jobs[j].deltas
    /\ passes'[p].currentRenderedBlocks # passes[p].currentRenderedBlocks

\* singleton job j of pass p, not cancelled, resolves in this step
SingleResolved(p, j) ==
    /\ passes[p].jobs[j].type = "single"
    /\ passes[p].jobs[j].st = "running"
    /\ passes'[p].jobs[j].st = "done"
    /\ ~passes[p].aborted

\* C15: a delta-driven publish is stamped with its time in lastUpdateRef, the
\* stamp only ever moves by more than 100 ms, so any two consecutive
\* delta-driven publishes, of one singleton or of two, are more than 100 ms
\* apart; and a singleton that resolves uncancelled publishes its final text
\* whatever the stamp is.
C15_ThrottledPublish ==
    [][/\ \A p \in 1..Len(passes) : \A j \in 1..Len(passes[p].jobs) :
            /\ DeltaPublished(p, j) =>
                  /\ lastUpdateRef' = now
                  /\ displayedContent' = Join(passes'[p].currentRenderedBlocks, <<NL>>)
            /\ SingleResolved(p, j) =>
                  LET item == passes[p].jobs[j].items[1]
                      final == SingleBlock(item.block,
                                   Translated(passes[p].settings.cfg, item.block.content))
                  IN  /\ passes'[p].currentRenderedBlocks[item.index] = final
                      /\ displayedContent' = Join(passes'[p].currentRenderedBlocks, <<NL>>)
       /\ lastUpdateRef' # lastUpdateRef =>
            /\ lastUpdateRef' - lastUpdateRef > 100
            /\ \E p \in 1..Len(passes) : \E j \in 1..Len(passes[p].jobs) : DeltaPublished(p, j)
      ]_vars

\* both singletons have streamed a delta: the first was published, the second
\* came exactly 100 ms later and was held back, and the first job then
\* resolved and published its final text
C15_Witness ==
    /\ Len(passes) = 1
    /\ Len(passes[1].jobs) = 2
    /\ passes[1].jobs[1].deltas = 1 /\ passes[1].jobs[2].deltas = 1
    /\ now - lastUpdateRef = ThrottleInterval
    /\ lastUpdateRef > 0
    /\ passes[1].jobs[1].st = "done"
    /\ passes[1].jobs[2].st = "running"
    /\ passes[1].currentRenderedBlocks[2] = passes[1].blocks[2].raw
    /\ displayedContent = Join(passes[1].currentRenderedBlocks, <<NL>>)

\* C16: the step that starts a new pass leaves every earlier pass cancelled
\* by the time the new pass has dispatched its jobs, and no job of a
\* cancelled pass issues its transformation call: a job whose queue slot
\* comes up after the cancellation settles without one.
C16_AbortBeforeDispatch ==
    [][/\ Len(passes') > Len(passes) =>
            \A p \in 1..Len(passes) : passes'[p].aborted
       /\ \A p \in 1..Len(passes) :
            passes[p].aborted =>
                \A j \in 1..Len(passes[p].jobs) : ~Issues(p, j)
      ]_vars

\* a newer pass is running; the first pass was cancelled with its second job
\* still queued, and that job's slot came up after the first job returned:
\* it settled without a call and without counting
C16_Witness ==
    /\ Len(passes) = 2
    /\ passes[1].aborted /\ ~passes[2].aborted
    /\ passes[2].startLog # <<>>
    /\ passes[1].startLog = <<1, 2>>
    /\ passes[1].queue = <<>>
    /\ passes[1].jobs[2].st = "done"
    /\ passes[1].active = 0
    /\ passes[1].jobs[2].items[1].block.type = "code"
    /\ passes[1].completedCount = passes[1].totalBlocks - 1
    /\ ~CacheHas(chunkCacheRef, passes[1].jobs[2].items[1].block.raw)

\* the opening fence line of a code block, with its newline
OpeningFence(block) == <<"F">> \o block.lang \o <<NL>>

\* C17: a singleton job for a code block sends exactly the text between the
\* fence lines, wraps the reply in the block's opening fence, with its
\* language tag, and a closing fence, and gives the block's raw text back
\* when the reply is the text it sent.
C17_CodeFenceRewrap ==
    (jobOut # <<>> /\ jobIn.job.type = "single" /\ jobIn.job.items[1].block.type = "code") =>
        LET item == jobIn.job.items[1]
            block == item.block
            out == jobOut[1]
        IN  /\ block.raw = OpeningFence(block) \o out.sent \o <<NL, "F">>
            /\ out.rendered[item.index] = OpeningFence(block) \o out.reply \o <<NL, "F">>
            /\ out.reply = out.sent => out.rendered[item.index] = block.raw

\* a js code block whose provider returned the code unchanged
C17_Witness ==
    /\ jobOut # <<>>
    /\ jobIn.job.type = "single"
    /\ jobIn.reply = "same"
    /\ jobIn.job.items[1].block.lang = <<"j">>
    /\ jobOut[1].sent = <<"x">>
    /\ jobOut[1].rendered[jobIn.job.items[1].index] = <<"F", "j", NL, "x", NL, "F">>

\* the blocks of a job that are headings
Headings(job) == { i \in 1..Len(job.items) : job.items[i].block.type = "header" }

\* the text of a heading line after its marker: the hashes and the blanks
\* that follow them
AfterMarker(line) == TrimLeft(SubSeq(line, HashCount(line) + 1, Len(line)))

\* C20: a job sends, for each of its headings, the heading's text after the
\* marker and nothing of the marker (a batch sends the contents of its blocks
\* joined by the delimiter, a singleton the content of its block), and the
\* block it writes for a heading is the marker prefix, the hashes and one
\* space, followed by the text returned for it.
C20_HeadingPrefixKept ==
    (jobOut # <<>> /\ Headings(jobIn.job) # {}) =>
        LET items == jobIn.job.items
            out == jobOut[1]
            hashes(i) == SubSeq(items[i].block.raw, 1, HashCount(items[i].block.raw))
            payload(i) ==
                IF items[i].block.type = "header"
                THEN AfterMarker(items[i].block.raw) ELSE items[i].block.raw
            parts == Split(out.reply, "S")
            returned(i) ==
                IF jobIn.job.type = "single" THEN out.reply
                ELSE IF i <= Len(parts) /\ parts[i] # <<>> THEN Trim(parts[i])
                ELSE payload(i)
        IN  /\ out.sent = Join([i \in 1..Len(items) |-> payload(i)], Delimiter)
            /\ \A i \in Headings(jobIn.job) :
                  out.rendered[items[i].index] = hashes(i) \o <<" ">> \o returned(i)

\* a batch of a heading and a paragraph with a translating provider, and the
\* heading over 1000 characters that goes alone
C20_Witness ==
    /\ jobOut # <<>>
    /\ jobIn.reply = "p"
    /\ \/ /\ jobIn.job.type = "batch"
          /\ Len(jobIn.job.items) = 2
          /\ jobIn.job.items[1].block.raw = <<"#", " ", "a">>
          /\ jobOut[1].sent = <<"a">> \o Delimiter \o <<"a">>
          /\ jobOut[1].rendered[1] = <<"#", " ", "p", "a">>
       \/ /\ jobIn.job.type = "single"
          /\ jobIn.job.items[1].block.raw = <<"#", "#", " ", "L">>
          /\ jobOut[1].sent = <<"L">>
          /\ jobOut[1].rendered[1] = <<"#", "#", " ", "p", "L">>

\* ---------------------------------------------------------------- the notes

\* a block as ReactMarkdown hands it to the components map: an AnnotatedBlock
\* (h1-h4, p, li) or a CodeBlock that is not inline
Shown(kind, children) == [kind |-> kind, children |-> children]

AZ == <<"a", " ", "z">>

\* the same words with a wider gap: another text, the same hash
AWideZ == <<"a", " ", " ", "z">>

\* the documents the preview shows, as their rendered blocks: a paragraph,
\* the paragraph with a wider gap, another paragraph, the paragraph twice,
\* the paragraph with its last word as inline code, a fenced code block
NoteDocuments ==
    { <<Shown("annotated", Str(AZ))>>,
      <<Shown("annotated", Str(AWideZ))>>,
      <<Shown("annotated", Str(<<"z">>))>>,
      <<Shown("annotated", Str(AZ)), Shown("annotated", Str(AZ))>>,
      <<Shown("annotated", Arr(<<Str(<<"a", " ">>), Code(<<"z">>)>>))>>,
      <<Shown("code", Str(<<"a", " ", "z", NL>>))>> }

\* contentText.replace(/\n$/, '')
DropFinalNL(s) ==
    IF s # <<>> /\ s[Len(s)] = NL THEN SubSeq(s, 1, Len(s) - 1) ELSE s

\* the text a block shows: codeContent for a CodeBlock, the text of the
\* children for an AnnotatedBlock
BlockText(block) ==
    IF block.kind = "code" THEN DropFinalNL(getTextContent(block.children))
    ELSE getTextContent(block.children)

\* a faulty variant: every annotation is handed to every block
BlockAnnotations_all(anns, hash) == anns

\* annotations.filter(a => a.contextHash === hash)
BlockAnnotations(anns, hash) ==
    LET same(a) == a.contextHash = hash
    IN  SelectSeq(anns, same)

\* the render of one block: its data-block-hash, the annotations it hands to
\* RecursiveHighlighter, and what that renders
RenderBlock(block, anns) ==
    LET hash == djb2Hash(BlockText(block))
        blockAnnotations == BlockAnnotations(anns, hash)
    IN  [hash |-> hash,
         blockAnnotations |-> blockAnnotations,
         fragments |->
            IF block.kind = "code"
            THEN RecursiveHighlighter(Str(BlockText(block)), blockAnnotations, 0).fragments
            ELSE AnnotatedBlock(block.children, blockAnnotations).fragments]

\* ReactMarkdown over the document with the components map
RenderAll(blocks, anns) ==
    [i \in 1..Len(blocks) |-> RenderBlock(blocks[i], anns)]

\* Date.now().toString(): later than the id of every annotation kept
NewId(anns) ==
    IF anns = <<>> THEN 1
    ELSE 1 + (CHOOSE m \in { anns[i].id : i \in 1..Len(anns) } :
                 \A i \in 1..Len(anns) : anns[i].id <= m)

\* setAnnotations(prev => [...prev, newAnnotation]): the offsets are stored as
\* they come
handleAddAnnotation(prev, id, contextHash, startOffset, endOffset) ==
    Append(prev, [id |-> id, contextHash |-> contextHash,
                  startOffset |-> startOffset, endOffset |-> endOffset])

\* a faulty variant: the oldest annotation is removed, whatever its id
handleRemoveAnnotation_oldest(prev, id) == Tail(prev)

\* setAnnotations(prev => prev.filter(a => a.id !== id))
handleRemoveAnnotation(prev, id) ==
    LET other(a) == a.id # id
    IN  SelectSeq(prev, other)

\* the app with one of the documents shown and no note yet
InitNotes ==
    /\ text = <<>> /\ parsed = <<>> /\ partIn = <<>> /\ partOut = <<>>
    /\ batchIn = <<>> /\ batchOut = <<>> /\ hlIn = <<>> /\ hlOut = <<>>
    /\ hashIn = <<>> /\ hashOut = <<>> /\ jobIn = <<>> /\ jobOut = <<>>
    /\ content = <<>> /\ settings = <<>> /\ enableTranslation = FALSE /\ mounted = TRUE
    /\ chunkCacheRef = EmptyCache /\ abortControllerRef = 0 /\ displayedContent = <<>>
    /\ isTranslating = FALSE /\ progress = [current |-> 0, total |-> 0]
    /\ parentTranslating = FALSE /\ now = 0 /\ lastUpdateRef = 0 /\ passes = <<>>
    /\ AppIdle
    /\ appAnnotations = <<>>
    /\ shown \in NoteDocuments
    /\ highlights = RenderAll(shown, <<>>)

\* a selection inside block b from start to end, saved as a note
\* (handleDocumentMouseUp, saveAnnotation, handleAddAnnotation)
AddAnnotation(b, start, end) ==
    /\ Len(appAnnotations) < MaxAnns
    /\ NewId(appAnnotations) <= MaxNoteId
    /\ b \in 1..Len(shown)
    /\ start < end /\ end <= Len(BlockText(shown[b]))
    /\ TrimWhite(SubSeq(BlockText(shown[b]), start + 1, end)) # <<>>
    /\ appAnnotations' =
          handleAddAnnotation(appAnnotations, NewId(appAnnotations),
                              highlights[b].hash, start, end)
    /\ highlights' = RenderAll(shown, appAnnotations')
    /\ UNCHANGED <<shown, harnessVars, previewVars, appVars>>

\* handleRemoveAnnotation
RemoveAnnotation(id) ==
    /\ \E i \in 1..Len(appAnnotations) : appAnnotations[i].id = id
    /\ appAnnotations' = handleRemoveAnnotation(appAnnotations, id)
    /\ highlights' = RenderAll(shown, appAnnotations')
    /\ UNCHANGED <<shown, harnessVars, previewVars, appVars>>

\* handleClearNotes
ClearNotes ==
    /\ appAnnotations # <<>>
    /\ appAnnotations' = <<>>
    /\ highlights' = RenderAll(shown, appAnnotations')
    /\ UNCHANGED <<shown, harnessVars, previewVars, appVars>>

\* the document changes (an edit, an upload, a translation shown) and the
\* preview renders it
ShowDocument(blocks) ==
    /\ blocks # shown
    /\ shown' = blocks
    /\ highlights' = RenderAll(blocks, appAnnotations)
    /\ UNCHANGED <<appAnnotations, harnessVars, previewVars, appVars>>

NextNotes ==
    \/ \E b \in 1..Len(shown), start \in 0..Len(AWideZ), end \in 1..Len(AWideZ) :
          AddAnnotation(b, start, end)
    \/ \E id \in 1..MaxNoteId : RemoveAnnotation(id)
    \/ ClearNotes
    \/ \E blocks \in NoteDocuments : ShowDocument(blocks)

\* the notes over the documents shown
SpecNotes == InitNotes /\ [][NextNotes]_vars

\* the annotations whose contextHash is the hash of the text block b shows
Matching(b) ==
    LET same(a) == a.contextHash = djb2Hash(BlockText(shown[b]))
    IN  SelectSeq(appAnnotations, same)

\* the offsets of block b highlighted for the annotation a
MarkedFor(b, a) ==
    LET fs == highlights[b].fragments
    IN  UNION { Offsets(fs[i].from, fs[i].to) :
                  i \in { k \in 1..Len(fs) : fs[k].kind = "mark" /\ fs[k].ann = a.id } }

\* every highlight of block b belongs to an annotation in as, within its range
MarksWithin(b, as) ==
    LET fs == highlights[b].fragments
    IN  \A k \in 1..Len(fs) :
            fs[k].kind = "mark" =>
                \E i \in 1..Len(as) :
                    /\ as[i].id = fs[k].ann
                    /\ Offsets(fs[k].from, fs[k].to)
                          \subseteq Offsets(as[i].startOffset, as[i].endOffset)

\* a render never changes the collection of annotations
RenderKeepsAnnotations == [][shown' # shown => appAnnotations' = appAnnotations]_vars

\* C18 as stated: the annotations applied to a block are exactly those whose
\* contextHash is the hash of the block's text; an annotation that matches no
\* rendered block has no highlight and stays in the collection; an annotation
\* that matches a rendered block is highlighted in a block with that hash.
C18_HighlightedWheneverMatched ==
    /\ [](/\ \A b \in 1..Len(shown) :
                /\ highlights[b].blockAnnotations = Matching(b)
                /\ MarksWithin(b, Matching(b))
          /\ \A i \in 1..Len(appAnnotations) :
                (\E b \in 1..Len(shown) :
                    appAnnotations[i].contextHash = highlights[b].hash)
                => (\E b \in 1..Len(shown) :
                       /\ appAnnotations[i].contextHash = highlights[b].hash
                       /\ MarkedFor(b, appAnnotations[i]) # {}))
    /\ RenderKeepsAnnotations

\* C18: in every render the annotations applied to a block are exactly those
\* whose contextHash is the hash of the block's current text; an annotation
\* that matches no rendered block has no highlight and stays in the
\* collection; as soon as a block with its hash is rendered it is applied
\* again, and the block's highlighted characters are exactly those of its
\* text outside nested code elements that lie in the range of an applied
\* annotation (none for a range past the end of a text with the same hash).
C18_SoftAnchoring ==
    /\ [](\A b \in 1..Len(shown) :
            /\ highlights[b].hash = djb2Hash(BlockText(shown[b]))
            /\ highlights[b].blockAnnotations = Matching(b)
            /\ MarksWithin(b, Matching(b))
            /\ Covered(highlights[b].fragments, "mark")
                  = Annotated(Matching(b))
                      \cap (Offsets(0, Len(BlockText(shown[b])))
                              \ Covered(highlights[b].fragments, "code")))
    /\ RenderKeepsAnnotations

\* a note taken on the last word of "a z" and highlighted again, at the same
\* offset, in the paragraph with the wider gap that took its place
C18_Witness ==
    /\ shown = <<Shown("annotated", Str(AWideZ))>>
    /\ Len(appAnnotations) = 1
    /\ appAnnotations[1].contextHash = djb2Hash(AZ)
    /\ appAnnotations[1].startOffset = 2 /\ appAnnotations[1].endOffset = 3
    /\ MarkedFor(1, appAnnotations[1]) = {2}

\* ------------------------------------------------------------- the pass ends

\* the transformation call of job j of pass p settles, either way
Settle(p, j) ==
    /\ p \in 1..Len(passes) /\ j \in 1..Len(passes[p].jobs)
    /\ \/ BatchReject(p, j)
       \/ SingleReject(p, j)
       \/ BatchResolve(p, j)
       \/ SingleResolve(p, j)

\* the next tick of the checkDone interval of pass p
Tick500(p) == p \in 1..Len(passes) /\ CheckDone(p)

\* every transformation call settles, and setInterval keeps ticking until it
\* is cleared.  A call that can settle and a tick that finds its pass over
\* stay possible until they happen, and there are finitely many of them, so
\* fairness to any of them is fairness to each.
Fairness ==
    /\ WF_vars(\E p \in 1..MaxPasses : Tick500(p))
    /\ WF_vars(\E p \in 1..MaxPasses, j \in 1..(2 * MaxPasses + 2) : Settle(p, j))

\* the Preview component when calls settle and timers fire
SpecLive == Init /\ [][Next]_vars /\ Fairness

\* pass p has run its jobs to the end, or was cancelled
PassEnded(p) ==
    /\ p \in 1..Len(passes)
    /\ passes[p].jobs # <<>>
    /\ AllSettled(passes[p]) \/ passes[p].aborted

\* the component and its parent both hold the status false
ReportedIdle == ~isTranslating /\ ~parentTranslating

\* C19: once all jobs of a pass have settled, by success or by failure, or
\* the pass has been cancelled, the translating status is eventually
\* reported false, when every transformation call settles.
C19_PassEventuallyEnds ==
    \A p \in 1..MaxPasses : PassEnded(p) ~> ReportedIdle

\* the separator blocks of a pass
Separators(q) == { i \in 1..Len(q.blocks) : q.blocks[i].type = "empty" }

\* C21: separator blocks are in no job of a pass, are not counted in its
\* total, have no cache entry, and their slot of the rendered blocks is the
\* empty string in every document the pass publishes.
C21_SeparatorsUntouched ==
    \A p \in 1..Len(passes) :
        LET q == passes[p]
        IN  /\ Dispatched(q) \cap Separators(q) = {}
            /\ q.totalBlocks = Len(q.blocks) - Cardinality(Separators(q))
            /\ progress.total \in { passes[k].totalBlocks : k \in 1..Len(passes) } \cup {0}
            /\ \A i \in Separators(q) :
                  /\ ~CacheHas(chunkCacheRef, q.blocks[i].raw)
                  /\ q.currentRenderedBlocks[i] = <<>>

\* a pass over a document with a separator, after its job cached a result
C21_Witness ==
    \E p \in 1..Len(passes) :
        /\ Separators(passes[p]) # {}
        /\ ~passes[p].aborted
        /\ passes[p].completedCount = passes[p].totalBlocks
        /\ chunkCacheRef # EmptyCache
        /\ displayedContent = Join(passes[p].currentRenderedBlocks, <<NL>>)

RECURSIVE Leaves(_)
\* the text leaves of a node in document order, a nested code element as one
\* leaf
Leaves(node) ==
    IF node.k = "str" THEN <<[k |-> "str", s |-> node.s]>>
    ELSE IF node.k = "code" THEN <<[k |-> "code", s |-> getTextContent(node)]>>
    ELSE Concat([i \in 1..Len(node.children) |-> Leaves(node.children[i])])

RECURSIVE LengthBefore(_, _)
\* the total length of the leaves before the k-th
LengthBefore(ls, k) ==
    IF k <= 1 THEN 0 ELSE LengthBefore(ls, k - 1) + Len(ls[k - 1].s)

\* the fragments cut from the offsets from..to, in order
FragmentsIn(fragments, from, to) ==
    LET inside(f) == f.from >= from /\ f.to <= to
    IN  SelectSeq(fragments, inside)

\* C22: one offset counter, starting at 0, is shared by the whole walk of a
\* block: every text leaf, at any depth, is cut within the range that starts
\* at the total length of the leaves before it in document order; a nested
\* code element advances the counter by the length of its text and is
\* returned whole.
C22_SharedOffsetCounter ==
    hlOut # <<>> =>
        LET fragments == hlOut[1].fragments
            ls == Leaves(hlIn.children)
        IN  /\ hlOut[1].offset = LengthBefore(ls, Len(ls) + 1)
            /\ \A i \in 1..Len(fragments) :
                  \E k \in 1..Len(ls) :
                      /\ LengthBefore(ls, k) <= fragments[i].from
                      /\ fragments[i].to <= LengthBefore(ls, k + 1)
            /\ \A k \in 1..Len(ls) :
                  LET from == LengthBefore(ls, k)
                      to == LengthBefore(ls, k + 1)
                      fs == FragmentsIn(fragments, from, to)
                  IN  /\ Concat([i \in 1..Len(fs) |-> fs[i].content]) = ls[k].s
                      /\ fs # <<>> /\ fs[1].from = from /\ fs[Len(fs)].to = to
                      /\ \A i \in 1..Len(fs) :
                            /\ fs[i].content = Slice(ls[k].s, from, fs[i].from, fs[i].to)
                            /\ i > 1 => fs[i].from = fs[i - 1].to
                      /\ IF ls[k].k = "code"
                         THEN fs = <<Fragment("code", ls[k].s, from, to, 0)>>
                         ELSE \A i \in 1..Len(fs) : fs[i].kind # "code"

\* a string, a code element in a nested element, a string: the note over the
\* last character is cut from the last leaf, which starts after the code
C22_Witness ==
    /\ hlOut # <<>>
    /\ Len(hlIn.annotations) = 1
    /\ hlIn.annotations[1].startOffset = 3 /\ hlIn.annotations[1].endOffset = 4
    /\ \E k \in 1..Len(Leaves(hlIn.children)) :
          /\ Leaves(hlIn.children)[k].k = "code"
          /\ LengthBefore(Leaves(hlIn.children), k) = 2
    /\ Len(Leaves(hlIn.children)) = 3
    /\ hlOut[1].fragments[Len(hlOut[1].fragments)]
          = Fragment("mark", <<"l">>, 3, 4, 1)

\* the sequence without its i-th element
Without(as, i) == SubSeq(as, 1, i - 1) \o SubSeq(as, i + 1, Len(as))

\* the positions of the annotations with the id
Holding(as, id) == { i \in 1..Len(as) : as[i].id = id }

\* C23: the collection of annotations changes only by the three handlers:
\* an addition appends one annotation at the end, with the offsets it was
\* given, and keeps the others; removing an id removes the one annotation
\* with that id and keeps the others in order; clearing empties the
\* collection; a step that changes the document shown changes no annotation.
C23_OnlyUserActionsChangeNotes ==
    /\ [](/\ \A id \in { appAnnotations[i].id : i \in 1..Len(appAnnotations) } :
                /\ Cardinality(Holding(appAnnotations, id)) = 1
                /\ handleRemoveAnnotation(appAnnotations, id)
                      = Without(appAnnotations,
                                CHOOSE i \in Holding(appAnnotations, id) : TRUE)
          /\ \A start \in {0, Len(AWideZ)}, end \in {0, 2 * Len(AWideZ)} :
                LET added == handleAddAnnotation(appAnnotations, MaxNoteId + 1,
                                                 djb2Hash(AZ), start, end)
                IN  /\ SubSeq(added, 1, Len(appAnnotations)) = appAnnotations
                    /\ Len(added) = Len(appAnnotations) + 1
                    /\ added[Len(added)].startOffset = start
                    /\ added[Len(added)].endOffset = end)
    /\ [][appAnnotations' # appAnnotations =>
            /\ shown' = shown
            /\ \/ /\ Len(appAnnotations') = Len(appAnnotations) + 1
                  /\ SubSeq(appAnnotations', 1, Len(appAnnotations)) = appAnnotations
               \/ \E i \in 1..Len(appAnnotations) :
                     appAnnotations' = Without(appAnnotations, i)
               \/ appAnnotations' = <<>>]_vars

\* the first of three notes was removed: the two left are the second and the
\* third, in the order they were taken, over a document shown afterwards
C23_Witness ==
    /\ Len(appAnnotations) = 2
    /\ appAnnotations[1].id = 2 /\ appAnnotations[2].id = 3
    /\ appAnnotations[1].contextHash # appAnnotations[2].contextHash
    /\ shown = <<Shown("annotated", Str(AWideZ))>>
    /\ Len(highlights[1].blockAnnotations) = 1

\* the singleton jobs of pass p that resolved: the pass is not cancelled, so
\* none of its settled jobs returned on the aborted flag
ResolvedSingles(p) ==
    { j \in 1..Len(passes[p].jobs) :
        passes[p].jobs[j].type = "single" /\ passes[p].jobs[j].st = "done" }

\* C24: the slot and the cache entry of a singleton job that resolved in a
\* pass that is not cancelled hold prefix + the text the call returned +
\* suffix, however many deltas came and whichever of them were published.
C24_FinalTextOnly ==
    \A p \in 1..Len(passes) :
        ~passes[p].aborted =>
            \A j \in ResolvedSingles(p) :
                LET item == passes[p].jobs[j].items[1]
                    final == SinglePrefix(item.block)
                                \o Translated(passes[p].settings.cfg, item.block.content)
                                \o SingleSuffix(item.block)
                IN  /\ passes[p].currentRenderedBlocks[item.index] = final
                    /\ CacheHas(chunkCacheRef, item.block.raw)
                    /\ chunkCacheRef[item.block.raw] = final

\* two singleton jobs of one pass resolved, one after a delta and one after
\* none
C24_Witness ==
    \E p \in 1..Len(passes) :
        /\ ~passes[p].aborted
        /\ \E j, k \in ResolvedSingles(p) :
              /\ passes[p].jobs[j].deltas = 0
              /\ passes[p].jobs[k].deltas = MaxDeltas
              /\ passes[p].jobs[k].accumulatedStream # <<>>

\* pass p is the one the controller ref holds, it is not cancelled, and a job
\* of it has not settled
CurrentAndBusy(p) ==
    /\ p = abortControllerRef
    /\ ~passes[p].aborted
    /\ \E j \in 1..Len(passes[p].jobs) : passes[p].jobs[j].st \in {"queued", "running"}

\* C25: while the current pass, not cancelled, has jobs that have not
\* settled, the status the parent holds is true: the completion poll of an
\* earlier, cancelled pass does not switch it to false.
C25_StatusTrueWhileBusy ==
    \A p \in 1..Len(passes) : CurrentAndBusy(p) => parentTranslating

\* ---------------------------------------------------------------- google-free

\* const maxLength = 2000
maxLength == 2000

\* chunks pushed over one attempt
MaxChunks == 2

RECURSIVE ChunkLoop(_, _, _)
\* for (const line of lines) ...; if (currentChunk) chunks.push(currentChunk)
ChunkLoop(chunks, currentChunk, lines) ==
    IF lines = <<>>
    THEN IF currentChunk # <<>> THEN Append(chunks, currentChunk) ELSE chunks
    ELSE LET line == Head(lines)
         IN  IF StrLen(currentChunk \o <<NL>> \o line) > maxLength /\ currentChunk # <<>>
             THEN ChunkLoop(Append(chunks, currentChunk), line, Tail(lines))
             ELSE ChunkLoop(chunks,
                            IF currentChunk # <<>> THEN currentChunk \o <<NL>> \o line
                            ELSE line,
                            Tail(lines))

\* the chunks of a text over maxLength
Chunks(t) == ChunkLoop(<<>>, <<>>, Split(t, NL))

\* what one request adds to the result: the translated segments joined, or
\* the chunk itself when the response is not an array of an array
ChunkResult(chunk, outcome) == IF outcome = "ok" THEN Translated("g", chunk) ELSE chunk

\* the outcome of the i-th request, a later one repeating the last outcome
OutcomeAt(outcomes, i) == outcomes[Min(i, Len(outcomes))]

\* googleTranslateFree for the outcomes of its requests in order: "ok",
\* "malformed" (a response that is not the expected array), "fail" (fetch
\* rejects, or the status is not ok: the throw lands in the catch)
googleTranslateFree(t, outcomes) ==
    IF StrLen(t) > maxLength
    THEN LET chunks == Chunks(t)
         IN  IF \E i \in 1..Len(chunks) : OutcomeAt(outcomes, i) = "fail"
             THEN t
             ELSE Concat([i \in 1..Len(chunks) |->
                             ChunkResult(chunks[i], OutcomeAt(outcomes, i))])
    ELSE IF OutcomeAt(outcomes, 1) = "ok" THEN Translated("g", t) ELSE t

\* a paragraph of two lines of 1001 letters each
TwoLongLines == <<"L", NL, "L">>

FreeContents == JobContents \cup {TwoLongLines}

\* a job of a first pass under google-free, and how its requests end
InitFree ==
    /\ jobIn \in { [content |-> c, job |-> job, outcomes |-> os] :
                      c \in FreeContents,
                      job \in UNION { JobsOf(cc, s) : cc \in FreeContents, s \in SettingsSet },
                      os \in (SeqsUpTo({"ok", "malformed", "fail"}, MaxChunks) \ {<<>>}) }
    /\ \E s \in SettingsSet : jobIn.job \in JobsOf(jobIn.content, s)
    /\ jobOut = <<>>
    /\ text = <<>> /\ parsed = <<>> /\ partIn = <<>> /\ partOut = <<>>
    /\ batchIn = <<>> /\ batchOut = <<>> /\ hlIn = <<>> /\ hlOut = <<>>
    /\ hashIn = <<>> /\ hashOut = <<>>
    /\ PreviewIdle

\* the cache after the job's try body, for the text the call resolved to
CacheAfter(job, reply) ==
    IF job.type = "batch"
    THEN BatchResolved([cache |-> EmptyCache, rendered |-> JobSlots(job.items),
                        completed |-> 0], job.items, reply).cache
    ELSE CacheSet(EmptyCache, job.items[1].block.raw,
                  SingleFinal(job.items[1].block, <<>>, reply))

\* the job under google-free: the request, what the call resolves to, the
\* cache it leaves, and the blocks the next pass over the document would send
RunFree ==
    /\ jobOut = <<>>
    /\ LET sent == IF jobIn.job.type = "batch" THEN BatchFullText(jobIn.job.items)
                   ELSE SingleRequest(jobIn.job.items[1].block)
           reply == googleTranslateFree(sent, jobIn.outcomes)
           cache == CacheAfter(jobIn.job, reply)
       IN  jobOut' = << [sent |-> sent, reply |-> reply, cache |-> cache,
                         next |-> BlocksToTranslate(cache,
                                      parseMarkdownIntoBlocks(jobIn.content))] >>
    /\ UNCHANGED <<jobIn, text, parsed, partIn, partOut, batchIn, batchOut, hlIn, hlOut,
                   hashIn, hashOut, previewVars, notesVars, appVars>>

\* the jobs of first passes when the provider is google-free
SpecFree == InitFree /\ [][RunFree]_vars

\* no request of the call was answered with a translation
NoneTranslated == \A i \in 1..Len(jobIn.outcomes) : jobIn.outcomes[i] # "ok"

\* C26: under google-free the call always resolves; when its requests fail
\* or are answered with a malformed response it resolves to the text it was
\* sent; the job caches a translation for each of its blocks, and the next
\* pass over the document sends none of them again.
C26_FreeFallbackCached ==
    jobOut # <<>> =>
        /\ NoneTranslated => jobOut[1].reply = jobOut[1].sent
        /\ \A i \in 1..Len(jobIn.job.items) :
              /\ CacheHas(jobOut[1].cache, jobIn.job.items[i].block.raw)
              /\ \A k \in 1..Len(jobOut[1].next) :
                    jobOut[1].next[k].block.raw # jobIn.job.items[i].block.raw

(***************************************************************************)
(* App's useHistory hook (src/unnamed/part_000): the undo/redo history of  *)
(* the editor text.  An entry is modelled by its text; the selection of an *)
(* entry plays no part in the hook's control flow.  A callback created in  *)
(* one render reads the history and currentIndex of that render.           *)
(***************************************************************************)
MaxHistory == 3
MaxUploads == 1
Texts == {INITIAL_MARKDOWN, "a", "b"}

\* pushState as called from a render whose state is h, i: the state it sets
\* (<<>> when it returns early)
pushState(h, i, t) ==
    IF t = h[i + 1]
    THEN <<>>
    ELSE LET newHistory == Append(SubSeq(h, 1, i + 1), t)
         IN  <<[history |-> newHistory, currentIndex |-> Len(newHistory) - 1]>>

\* undo: ret is <<>> for null; the guard ignored
undo_unguarded(h, i) == [ret |-> <<>>, currentIndex |-> i - 1]

\* undo over the state h, i: the returned entry and the index afterwards
undo(h, i) ==
    IF i > 0
    THEN [ret |-> <<h[i]>>, currentIndex |-> i - 1]
    ELSE [ret |-> <<>>, currentIndex |-> i]

\* redo over the state h, i
redo(h, i) ==
    IF i < Len(h) - 1
    THEN [ret |-> <<h[i + 2]>>, currentIndex |-> i + 1]
    ELSE [ret |-> <<>>, currentIndex |-> i]

InitHistory ==
    /\ HarnessIdle
    /\ PreviewIdle

\* the two setState calls of a pushState, batched into one render
SetPushed(pushed) ==
    IF pushed = <<>>
    THEN UNCHANGED <<history, currentIndex>>
    ELSE /\ Len(pushed[1].history) <= MaxHistory
         /\ history' = pushed[1].history
         /\ currentIndex' = pushed[1].currentIndex

\* the user edits the text area (also the toolbar insert and the AI panel's apply)
handleMarkdownChange(t) ==
    /\ SetPushed(pushState(history, currentIndex, t))
    /\ UNCHANGED <<uploads, harnessVars, previewVars, notesVars>>

performUndo ==
    /\ currentIndex' = undo(history, currentIndex).currentIndex
    /\ UNCHANGED <<history, uploads, harnessVars, previewVars, notesVars>>

performRedo ==
    /\ currentIndex' = redo(history, currentIndex).currentIndex
    /\ UNCHANGED <<history, uploads, harnessVars, previewVars, notesVars>>

\* a file is chosen: the reader's onload keeps the pushState of this render
handleFileUpload(t) ==
    /\ Len(uploads) < MaxUploads
    /\ uploads' = Append(uploads, [history |-> history, currentIndex |-> currentIndex,
                                   text |-> t])
    /\ UNCHANGED <<history, currentIndex, harnessVars, previewVars, notesVars>>

\* the k-th pending read completes and its onload runs
onload(k) ==
    /\ k \in 1..Len(uploads)
    /\ SetPushed(pushState(uploads[k].history, uploads[k].currentIndex, uploads[k].text))
    /\ uploads' = SubSeq(uploads, 1, k - 1) \o SubSeq(uploads, k + 1, Len(uploads))
    /\ UNCHANGED <<harnessVars, previewVars, notesVars>>

NextHistory ==
    \/ \E t \in Texts : handleMarkdownChange(t)
    \/ performUndo
    \/ performRedo
    \/ \E t \in Texts : handleFileUpload(t)
    \/ \E k \in 1..MaxUploads : onload(k)

SpecHistory == InitHistory /\ [][NextHistory]_vars

\* C27: the history is never empty and currentIndex is always one of its
\* indices; undo at index 0 and redo at the last index return null and leave
\* the index where it is.
C27_HistoryIndexInRange ==
    /\ Len(history) >= 1
    /\ 0 <= currentIndex /\ currentIndex <= Len(history) - 1
    /\ currentIndex = 0 =>
          undo(history, currentIndex) = [ret |-> <<>>, currentIndex |-> currentIndex]
    /\ currentIndex = Len(history) - 1 =>
          redo(history, currentIndex) = [ret |-> <<>>, currentIndex |-> currentIndex]

\* undone back to the first of three entries while a file read is pending
C27_Witness ==
    /\ Len(history) = 3
    /\ currentIndex = 0
    /\ uploads # <<>>
    /\ uploads[1].currentIndex = 2

\* C28: a push of the current entry's text changes nothing; any other push
\* keeps the entries up to the current index, drops the later ones, appends
\* the new entry and makes it current, whichever callback it comes from.
C28_PushTruncatesAtCurrent ==
    [][ history' # history =>
          \E t \in Texts :
              /\ t # history[currentIndex + 1]
              /\ history' = Append(SubSeq(history, 1, currentIndex + 1), t)
              /\ currentIndex' = Len(history') - 1 ]_vars

\* ------------------------------------------------------ saving equal settings

\* C29: a save of settings whose JSON serialization equals that of the current
\* settings is a no-op: a step that keeps the serialization (and the text, the
\* switch and the mount) keeps the settings object, clears nothing from the
\* cache, cancels no pass and starts none.
C29_EqualSettingsSaveIsNoOp ==
    [][ ( /\ JSONstringify(settings') = JSONstringify(settings)
          /\ content' = content
          /\ enableTranslation' = enableTranslation
          /\ mounted' = mounted )
        => ( /\ settings' = settings
             /\ \A raw \in DOMAIN chunkCacheRef : CacheHas(chunkCacheRef', raw)
             /\ abortControllerRef' = abortControllerRef
             /\ Len(passes') = Len(passes)
             /\ \A p \in 1..Len(passes) : passes'[p].aborted = passes[p].aborted ) ]_vars

\* a pass is running with a job unsettled and a block cached, and a save of
\* the current settings returns early
C29_Witness ==
    /\ mounted
    /\ enableTranslation
    /\ abortControllerRef \in 1..Len(passes)
    /\ CurrentAndBusy(abortControllerRef)
    /\ chunkCacheRef # EmptyCache
    /\ \E s \in SettingsSet : handleSaveSettings(settings, s) = <<>>

\* ------------------------------------------------------ the queue's progress

\* the jobs of pass q whose task the queue has started
Started(q) == { q.startLog[k] : k \in 1..Len(q.startLog) }

\* no task is started twice, the started ones are those no longer waiting, and
\* an empty queue with every task settled has no active task
QueueAccounts(q) ==
    /\ \A a, b \in 1..Len(q.startLog) : a # b => q.startLog[a] # q.startLog[b]
    /\ Started(q) = { j \in 1..Len(q.jobs) : q.jobs[j].st # "queued" }
    /\ (q.queue = <<>> /\ AllSettled(q)) => q.active = 0

\* pass p has given its tasks to a queue of concurrency at least 1
Dispatching(p) ==
    p \in 1..Len(passes) /\ EffectiveConcurrency(passes[p].settings) >= 1

\* every task of pass p has been started
AllStartedIn(p) ==
    p \in 1..Len(passes) /\ Started(passes[p]) = 1..Len(passes[p].jobs)

\* C30: with a concurrency of at least 1 and calls that all settle, every
\* task given to add() is started exactly once and eventually, and when the
\* queue is empty and every task has settled the active count is 0.
C30_EveryTaskStartedOnce ==
    /\ [](\A p \in 1..Len(passes) :
              EffectiveConcurrency(passes[p].settings) >= 1 => QueueAccounts(passes[p]))
    /\ \A p \in 1..MaxPasses : Dispatching(p) ~> AllStartedIn(p)

\* a pass of concurrency 1 that is not cancelled has started its first task
\* and holds a later one in its queue
C30_Witness ==
    \E p \in 1..Len(passes) :
        /\ ~passes[p].aborted
        /\ EffectiveConcurrency(passes[p].settings) = 1
        /\ passes[p].active = 1
        /\ passes[p].queue # <<>>

====
